---- MODULE Spec2Model ----
(***************************************************************************)
(* A model of the net-entity / IO-handler core of chops-net-ip:            *)
(*   - detail::tcp_io         (TCP IO handler: read, framing, write path)  *)
(*   - detail::tcp_connector  (TCP connector entity)                       *)
(*   - detail::udp_entity_io  (UDP entity and IO handler in one object)    *)
(* io_common, output_queue, net_entity_base and net_entity_common are      *)
(* included by these sources but are not part of them; they are modelled   *)
(* from sections 4.2 and 4.7 of the specification.                         *)
(*                                                                         *)
(* A behaviour is one of three scenarios, chosen by `mode`:                *)
(*   "pair" two connected tcp_io handlers driven directly, as in           *)
(*          test/net_ip/make_endpoint_test.cpp (acc_conn_test);            *)
(*   "conn" a tcp_connector, the handlers it creates and a remote peer;    *)
(*   "udp"  one udp_entity_io, started once, sending and receiving;        *)
(*   "udp_cycle" one udp_entity_io started and stopped repeatedly, with no *)
(*          datagrams sent or received;                                    *)
(*   "handle" basic_net_entity handles to entities that can go away;       *)
(*   "wq"   one wait_queue with its producers and consumers;               *)
(*   "acc"  one tcp_acceptor and the handlers of the connections it        *)
(*          accepts.                                                       *)
(***************************************************************************)
EXTENDS Integers, Sequences, FiniteSets, TLC

(***************************************************************************)
(* Bounds of the model.                                                    *)
(***************************************************************************)
MaxSends == 3
MaxBody == 2
MaxHandlers == 2
MaxStarts == 2
MaxStartIo == 2
MaxDgrams == 1
MaxUdpSends == 2
MaxUdpStarts == 1
MaxEnts == 2
MaxCalls == 2
MaxConsumers == 2
MaxPushes == 3
MaxCloses == 2

(* the header size the tests pass to start_io *)
HdrSize == 2

HIds == 1 .. MaxHandlers
UdpModes == {"udp", "udp_cycle"}

(***************************************************************************)
(* Messages on the wire: a header of HdrSize bytes whose last byte is the  *)
(* body length, followed by the body (make_variable_len_msg of the tests). *)
(***************************************************************************)
Header(n) == [i \in 1 .. HdrSize |-> IF i = HdrSize THEN n ELSE 0]
Body(n) == [i \in 1 .. n |-> n + 64]
MakeMsg(n) == Header(n) \o Body(n)
Msgs == {MakeMsg(n) : n \in 0 .. MaxBody}

(* the delimiter of the tests' delimiter scenarios, "\r\n", and the text    *)
(* messages ending with it (make_cr_lf_text_msg)                           *)
CrLf == <<13, 10>>
Delims == {<<>>, CrLf}
MakeDelimMsg(n, d) == Body(n) \o d
MsgsFor(d) == IF d = <<>> THEN Msgs ELSE {MakeDelimMsg(n, d) : n \in 0 .. MaxBody}

Take(s, n) == SubSeq(s, 1, n)
Drop(s, n) == SubSeq(s, n + 1, Len(s))
IsPrefix(s, t) == Len(s) <= Len(t) /\ s = Take(t, Len(s))
RemoveAt(s, i) == Take(s, i - 1) \o Drop(s, i)
Min(hs) == CHOOSE h \in hs : \A g \in hs : h <= g

(* where the first occurrence of d in v ends, 0 if v does not hold d: the  *)
(* match async_read_until looks for in its dynamic buffer                  *)
MatchEnds(v, d) == {e \in Len(d) .. Len(v) : SubSeq(v, e - Len(d) + 1, e) = d}
MatchEnd(v, d) == IF MatchEnds(v, d) = {} THEN 0 ELSE Min(MatchEnds(v, d))

(* std::vector::resize: keeps the leading elements, value-initialises new ones *)
Resize(v, n) == [i \in 1 .. n |-> IF i <= Len(v) THEN v[i] ELSE 0]
(* the bytes an async_read stores through mbuf = (data() + off, len) *)
StoreAt(v, off, bytes) ==
    [i \in 1 .. Len(v) |->
        IF i > off /\ i <= off + Len(bytes) THEN bytes[i - off] ELSE v[i]]

VARIABLES
    mode,               \* the scenario
    delim,              \* the delimiter passed to start_io; <<>>: header framing
    \* ---- basic_net_entity handles
    ents,               \* the entity objects: alive (a shared_ptr owns it), started, calls
    hret,               \* the last call made on a handle and its outcome
    \* ---- threads
    last_stop,          \* the last stop or stop_io that acted: its caller's thread and
                        \* the thread its body (close, flags, callbacks) ran on
    \* ---- wait_queue
    m_data_queue,       \* the values in the queue, front first
    m_closed,           \* the closed flag
    cons,               \* each consumer thread: "idle", "waiting" on the condition
                        \* variable, or "notified"
    pushed,             \* the values pushed with success, in the order of the pushes
    popped,             \* the values popped, in the order of the pops
    wq_ret,             \* the last wait_queue call that returned, and its result
    n_pushes,           \* number of push calls made
    n_closes,           \* number of close calls that closed the queue
    chg,                \* the IO state changes of the entity delivered by wait_queue
    ios_calls,          \* the state changes (ids) for which io_start was called
    \* ---- io_common<tcp_io> of each handler
    io_started,         \* m_io_started
    write_in_progress,  \* m_write_in_progress
    outq,               \* m_outq
    \* ---- tcp_io members
    sock,               \* m_socket: "open" or "closed"
    remote_endp,        \* m_remote_endp: TRUE once obtained
    byte_vec,           \* m_byte_vec
    read_size,          \* m_read_size
    delimiter,          \* m_delimiter
    hdr_processed,      \* state of the framing function object held by the read continuation
    \* ---- the socket runtime
    rd_ops,             \* outstanding async_read operations of each handler
    wr_ops,             \* outstanding async_write operations of each handler
    execq,              \* closures posted to the executor by send, in post order
    wire,               \* bytes that arrived for each handler and are not yet read
    eof,                \* the peer of the handler has gone
    \* ---- tcp_connector
    created,            \* tcp_io objects constructed so far
    c_started,          \* m_entity_base started flag
    handlers,           \* m_entity_base handler container
    endpoints_empty,    \* m_endpoints.empty()
    res_ops,            \* outstanding resolver operations
    conn_ops,           \* outstanding async_connect operations
    \* ---- udp_entity_io (its io_common, socket and operations use handler slot U)
    local_endp,         \* m_local_endp: "any" (default constructed) or "bound"
    default_dest,       \* m_default_dest_endp
    max_size,           \* m_max_size
    \* ---- what the application observes
    notified,           \* invocations of the entity notifier callback: (err, handler)
    cbLog,              \* invocations of the state change callbacks
    ret,                \* the last start_io / stop_io / stop call and what it returned
    sio_calls,          \* number of start_io calls made on each handler
    accepted,           \* buffers whose send closure was processed with IO started
    written,            \* buffers handed to async_write, in order
    delivered,          \* messages passed to the message handler, in order
    n_sends,            \* number of send calls made
    n_starts            \* number of entity start calls made

ioCommonVars == <<io_started, write_in_progress, outq>>
handleVars == <<ents, hret>>
wqVars == <<m_data_queue, m_closed, cons, pushed, popped, wq_ret, n_pushes, n_closes, chg,
           ios_calls>>
scenVars == <<mode, delim, handleVars, last_stop, wqVars>>
tcpFrameVars == <<remote_endp, byte_vec, read_size, delimiter, hdr_processed>>
tcpReadVars == <<remote_endp, read_size, delimiter, hdr_processed>>
tcpIoVars == <<sock, tcpFrameVars>>
runtimeVars == <<rd_ops, wr_ops, execq, wire, eof>>
connVars == <<created, c_started, handlers, endpoints_empty, res_ops, conn_ops>>
obsVars == <<notified, cbLog, ret, sio_calls, accepted, written, delivered, n_sends, n_starts>>
udpVars == <<local_endp, default_dest, max_size>>
vars == <<scenVars, ioCommonVars, tcpIoVars, runtimeVars, connVars, udpVars, obsVars>>

(***************************************************************************)
(* Error codes.                                                            *)
(***************************************************************************)
tcp_io_handler_stopped == "tcp_io_handler_stopped"
message_handler_terminated == "message_handler_terminated"
tcp_connector_stopped == "tcp_connector_stopped"
operation_aborted == "operation_aborted"
bad_descriptor == "bad_descriptor"
eof_error == "eof"
broken_pipe == "broken_pipe"
not_connected == "not_connected"
connect_refused == "connection_refused"
host_not_found == "host_not_found"

(***************************************************************************)
(* The part of the state that the synchronous call chains                  *)
(*   stop_io -> notifier -> notify_me -> close                             *)
(* read and write.  The operators below are the methods as functions on    *)
(* this record; an action installs the record it ends with.                *)
(***************************************************************************)
Core ==
    [io_started |-> io_started, sock |-> sock, rd_ops |-> rd_ops, wr_ops |-> wr_ops,
     c_started |-> c_started, handlers |-> handlers, res_ops |-> res_ops,
     notified |-> notified, cbLog |-> cbLog]

SetCore(S) ==
    /\ io_started' = S.io_started
    /\ sock' = S.sock
    /\ rd_ops' = S.rd_ops
    /\ wr_ops' = S.wr_ops
    /\ c_started' = S.c_started
    /\ handlers' = S.handlers
    /\ res_ops' = S.res_ops
    /\ notified' = S.notified
    /\ cbLog' = S.cbLog

(* closing a socket cancels the operations still waiting on it *)
CancelOps(ops) ==
    [i \in DOMAIN ops |->
        IF ops[i].st = "pending" THEN [ops[i] EXCEPT !.st = "cancelled"] ELSE ops[i]]

(* an operation started on a socket: it fails at once on a closed one *)
OpStatus(S, h) == IF S.sock[h] = "open" THEN "pending" ELSE "bad"

(***************************************************************************)
(* io_common (specification 4.2).                                          *)
(***************************************************************************)
(* set_io_started: flips started false -> true; false if already started *)
set_io_started(S, h) ==
    [ok |-> ~S.io_started[h], S |-> [S EXCEPT !.io_started[h] = TRUE]]

(* stop: flips started true -> false; false if already stopped *)
io_common_stop(S, h) ==
    [ok |-> S.io_started[h], S |-> [S EXCEPT !.io_started[h] = FALSE]]

(***************************************************************************)
(* net_entity_base (specification 4.7).                                    *)
(***************************************************************************)
remove_handler(S, h) == [S EXCEPT !.handlers = @ \ {h}]
add_handler(S, h) == [S EXCEPT !.handlers = @ \cup {h}]
clear_handlers(S) == [S EXCEPT !.handlers = {}]

call_start_change_cb(S, h) ==
    [S EXCEPT !.cbLog = Append(@, [kind |-> "start", err |-> "", h |-> h,
                                   n |-> Cardinality(S.handlers)])]

call_shutdown_change_cb(S, err, h) ==
    [S EXCEPT !.cbLog = Append(@, [kind |-> "stop", err |-> err, h |-> h,
                                   n |-> Cardinality(S.handlers)])]

(***************************************************************************)
(* tcp_io::close                                                           *)
(***************************************************************************)
tcp_io_close(S, h) ==
    LET r == io_common_stop(S, h) IN
    IF ~r.ok THEN S
    ELSE [r.S EXCEPT !.sock[h] = "closed",
                     !.rd_ops[h] = CancelOps(@),
                     !.wr_ops[h] = CancelOps(@)]

(* A notify_me that does not close the handler. *)
notify_me_not_closing(S, err, h) ==
    call_shutdown_change_cb(remove_handler(S, h), err, h)

(***************************************************************************)
(* tcp_connector::notify_me                                                *)
(***************************************************************************)
notify_me(S, err, h) ==
    call_shutdown_change_cb(remove_handler(tcp_io_close(S, h), h), err, h)

(***************************************************************************)
(* m_notifier_cb: bound to tcp_connector::notify_me by the connector, to   *)
(* the acceptor's entity-notify callback (specification 4.5: close the     *)
(* handler's socket, remove it from the set, invoke stopCb with the        *)
(* count), and to the tests' entity_notifier (which only records the call) *)
(* in the handler pair test.                                               *)
(***************************************************************************)
m_notifier_cb(S, err, h) ==
    LET T == [S EXCEPT !.notified = Append(@, [err |-> err, h |-> h])] IN
    IF mode \in {"conn", "acc"} THEN notify_me(T, err, h) ELSE T

(***************************************************************************)
(* A basic_io_interface holds a weak pointer: an application call reaches  *)
(* the handler only while some shared_ptr keeps it alive: the entity's     *)
(* container, a continuation or posted closure that captured `self`, or    *)
(* (in the handler pair test) the test's own shared_ptr.                   *)
(***************************************************************************)
NoHandler == 0
(* a default constructed endpoint, and the endpoints the application names *)
NoEndp == "none"
DefaultEndps == {"ep1"}
SendEndps == {"ep2"}

(* what the application's last call was and returned; `again` marks a stop
   that directly follows another stop of the same object *)
Ret(op, h, val) ==
    [op |-> op, h |-> h, val |-> val,
     again |-> op = "stop" /\ ret.op = "stop" /\ ret.h = h]

Alive(h) ==
    /\ h \in created
    /\ \/ mode = "pair"
       \/ h \in handlers
       \/ rd_ops[h] # <<>>
       \/ wr_ops[h] # <<>>
       \/ \E i \in DOMAIN execq : execq[i].h = h

(* in the handler pair test handler 1 is the connecting side and sends *)
Sender == 1
Peer(h) == 3 - h

(***************************************************************************)
(* tcp_io::start_read: one more async_read, of `len` bytes stored at       *)
(* m_byte_vec.data() + off.                                                *)
(***************************************************************************)
start_read(S, h, off, len) ==
    [S EXCEPT !.rd_ops[h] = Append(@, [off |-> off, len |-> len, until |-> FALSE,
                                       st |-> OpStatus(S, h)])]

(***************************************************************************)
(* tcp_io::start_read_until: one more async_read_until on the dynamic      *)
(* buffer over m_byte_vec.                                                 *)
(***************************************************************************)
start_read_until(S, h) ==
    [S EXCEPT !.rd_ops[h] = Append(@, [off |-> 0, len |-> 0, until |-> TRUE,
                                       st |-> OpStatus(S, h)])]

(* m_socket.remote_endpoint(ec): the values ec can take *)
RemoteEndpointResults(S, h) ==
    IF S.sock[h] # "open" THEN {bad_descriptor}
    ELSE IF eof[h] THEN {"", not_connected}
    ELSE {""}

(***************************************************************************)
(* tcp_io::start_io(header_size, msg_handler, msg_frame) and               *)
(* tcp_io::start_io(delimiter, msg_handler), with start_io_setup inlined;  *)
(* the application calls the second when its delimiter is not empty.       *)
(***************************************************************************)
tcp_io_start_io_sized(h, header_size) ==
    /\ Alive(h)
    \* sio_calls counts the calls that found IO not started
    /\ io_started[h] \/ sio_calls[h] < MaxStartIo
    /\ sio_calls' = [sio_calls EXCEPT ![h] = IF io_started[h] THEN @ ELSE @ + 1]
    /\ LET r == set_io_started(Core, h) IN
       IF ~r.ok
       THEN /\ ret' = Ret("start_io", h, FALSE)
            /\ UNCHANGED <<scenVars, udpVars, ioCommonVars, tcpIoVars, runtimeVars, connVars>>
            /\ UNCHANGED <<notified, cbLog, accepted, written, delivered, n_sends, n_starts>>
       ELSE \E ec \in RemoteEndpointResults(r.S, h) :
            IF ec # ""
            THEN /\ SetCore(m_notifier_cb(r.S, ec, h))
                 /\ ret' = Ret("start_io", h, FALSE)
                 /\ UNCHANGED <<scenVars, udpVars, write_in_progress, outq, remote_endp,
                                byte_vec,
                                read_size, delimiter, hdr_processed, execq, wire, eof,
                                created,
                                endpoints_empty, conn_ops, accepted, written, delivered,
                                n_sends, n_starts>>
            ELSE /\ remote_endp' = [remote_endp EXCEPT ![h] = TRUE]
                 /\ IF delim = <<>>
                    THEN /\ read_size' = [read_size EXCEPT ![h] = header_size]
                         /\ byte_vec' = [byte_vec EXCEPT ![h] = Resize(@, header_size)]
                         /\ hdr_processed' = [hdr_processed EXCEPT ![h] = FALSE]
                         /\ SetCore(start_read(r.S, h, 0, header_size))
                         /\ UNCHANGED delimiter
                    ELSE /\ delimiter' = [delimiter EXCEPT ![h] = delim]
                         /\ SetCore(start_read_until(r.S, h))
                         /\ UNCHANGED <<read_size, byte_vec, hdr_processed>>
                 /\ ret' = Ret("start_io", h, TRUE)
                 /\ UNCHANGED <<scenVars, udpVars, write_in_progress, outq, execq, wire,
                                eof, created,
                                endpoints_empty, conn_ops, accepted, written, delivered,
                                n_sends, n_starts>>

(* the tests start IO with the size of their messages' header *)
tcp_io_start_io(h) == tcp_io_start_io_sized(h, HdrSize)

(***************************************************************************)
(* tcp_io::stop_io                                                         *)
(***************************************************************************)
tcp_io_stop_io_f(S, h) ==
    IF S.io_started[h] THEN m_notifier_cb(S, tcp_io_handler_stopped, h) ELSE S

tcp_io_stop_io(h) ==
    /\ Alive(h)
    /\ SetCore(tcp_io_stop_io_f(Core, h))
    /\ ret' = Ret("stop_io", h, io_started[h])
    /\ UNCHANGED <<scenVars, udpVars, write_in_progress, outq, remote_endp, byte_vec,
                   read_size, delimiter,
                   hdr_processed, execq, wire, eof, created, endpoints_empty, conn_ops,
                   sio_calls, accepted, written, delivered, n_sends, n_starts>>

(***************************************************************************)
(* The framing function object the tests pass to start_io                  *)
(* (make_simple_variable_len_msg_frame over decode_variable_len_msg_hdr):  *)
(* on a header it returns the body length the header carries, on a body 0. *)
(***************************************************************************)
msg_frame(processed, mbuf) ==
    IF ~processed
    THEN [next |-> mbuf[Len(mbuf)], processed |-> mbuf[Len(mbuf)] # 0]
    ELSE [next |-> 0, processed |-> FALSE]

(* how an outstanding async_read can complete *)
ReadResults(h, i) ==
    LET op == rd_ops[h][i]
        ready == IF op.until THEN MatchEnd(byte_vec[h] \o wire[h], delimiter[h]) > 0
                 ELSE Len(wire[h]) >= op.len
    IN
    (IF op.st \in {"pending", "cancelled"} /\ ready THEN {"ok"} ELSE {})
    \cup (IF op.st = "cancelled" THEN {operation_aborted} ELSE {})
    \cup (IF op.st = "bad" THEN {bad_descriptor} ELSE {})
    \cup (IF op.st = "pending" /\ ~ready /\ eof[h] THEN {eof_error} ELSE {})

(* The numbers of bytes an async_read_until that completes with res can    *)
(* have added to m_byte_vec: none when the buffer already holds the        *)
(* delimiter, else enough to hold it, and possibly more (it reads what has *)
(* arrived).                                                               *)
ReadUntilSizes(h, res) ==
    IF res # "ok" \/ MatchEnd(byte_vec[h], delimiter[h]) > 0 THEN {0}
    ELSE {k \in 1 .. Len(wire[h]) :
            MatchEnd(byte_vec[h] \o Take(wire[h], k), delimiter[h]) > 0}

(* A handle_read that leaves m_byte_vec at the delivered message's size for *)
(* the next header read.                                                   *)
handle_read_keeping_size(h, i, res, mh_ret) ==
    LET op == rd_ops[h][i]
        S0 == [Core EXCEPT !.rd_ops[h] = RemoveAt(@, i)]
        bytes == Take(wire[h], op.len)
        vec == StoreAt(byte_vec[h], op.off, bytes)
        fr == msg_frame(hdr_processed[h], bytes)
    IN
    IF res # "ok"
    THEN /\ SetCore(m_notifier_cb(S0, res, h))
         /\ UNCHANGED <<byte_vec, hdr_processed, wire, delivered>>
    ELSE /\ wire' = [wire EXCEPT ![h] = Drop(@, op.len)]
         /\ hdr_processed' = [hdr_processed EXCEPT ![h] = fr.processed]
         /\ IF fr.next = 0
            THEN /\ delivered' = [delivered EXCEPT ![h] = Append(@, vec)]
                 /\ byte_vec' = [byte_vec EXCEPT ![h] = vec]
                 /\ IF ~mh_ret
                    THEN SetCore(m_notifier_cb(S0, message_handler_terminated, h))
                    ELSE SetCore(start_read(S0, h, 0, read_size[h]))
            ELSE /\ delivered' = delivered
                 /\ byte_vec' = [byte_vec EXCEPT ![h] = Resize(vec, Len(vec) + fr.next)]
                 /\ SetCore(start_read(S0, h, Len(vec), fr.next))

(* A handle_read that starts no read for the bytes the framing callback    *)
(* asks for.                                                               *)
handle_read_not_continuing(h, i, res, mh_ret) ==
    LET op == rd_ops[h][i]
        S0 == [Core EXCEPT !.rd_ops[h] = RemoveAt(@, i)]
        bytes == Take(wire[h], op.len)
        vec == StoreAt(byte_vec[h], op.off, bytes)
        fr == msg_frame(hdr_processed[h], bytes)
    IN
    IF res # "ok"
    THEN /\ SetCore(m_notifier_cb(S0, res, h))
         /\ UNCHANGED <<byte_vec, hdr_processed, wire, delivered>>
    ELSE /\ wire' = [wire EXCEPT ![h] = Drop(@, op.len)]
         /\ hdr_processed' = [hdr_processed EXCEPT ![h] = fr.processed]
         /\ IF fr.next = 0
            THEN /\ delivered' = [delivered EXCEPT ![h] = Append(@, vec)]
                 /\ IF ~mh_ret
                    THEN /\ SetCore(m_notifier_cb(S0, message_handler_terminated, h))
                         /\ byte_vec' = [byte_vec EXCEPT ![h] = vec]
                    ELSE /\ byte_vec' = [byte_vec EXCEPT ![h] = Resize(vec, read_size[h])]
                         /\ SetCore(start_read(S0, h, 0, read_size[h]))
            ELSE /\ delivered' = delivered
                 /\ byte_vec' = [byte_vec EXCEPT ![h] = Resize(vec, Len(vec) + fr.next)]
                 /\ SetCore(S0)

(* A handle_read that notifies and then starts the next read all the same. *)
handle_read_rearming(h, i, res, mh_ret) ==
    LET op == rd_ops[h][i]
        S0 == [Core EXCEPT !.rd_ops[h] = RemoveAt(@, i)]
        bytes == Take(wire[h], op.len)
        vec == StoreAt(byte_vec[h], op.off, bytes)
        fr == msg_frame(hdr_processed[h], bytes)
    IN
    IF res # "ok"
    THEN /\ SetCore(start_read(m_notifier_cb(S0, res, h), h, 0, read_size[h]))
         /\ UNCHANGED <<byte_vec, hdr_processed, wire, delivered>>
    ELSE /\ wire' = [wire EXCEPT ![h] = Drop(@, op.len)]
         /\ hdr_processed' = [hdr_processed EXCEPT ![h] = fr.processed]
         /\ IF fr.next = 0
            THEN /\ delivered' = [delivered EXCEPT ![h] = Append(@, vec)]
                 /\ byte_vec' = [byte_vec EXCEPT ![h] = Resize(vec, read_size[h])]
                 /\ IF ~mh_ret
                    THEN SetCore(start_read(m_notifier_cb(S0, message_handler_terminated, h),
                                            h, 0, read_size[h]))
                    ELSE SetCore(start_read(S0, h, 0, read_size[h]))
            ELSE /\ delivered' = delivered
                 /\ byte_vec' = [byte_vec EXCEPT ![h] = Resize(vec, Len(vec) + fr.next)]
                 /\ SetCore(start_read(S0, h, Len(vec), fr.next))

(***************************************************************************)
(* tcp_io::handle_read, run by the completion of read i of handler h with  *)
(* result res; mh_ret is what the message handler returns if it is called. *)
(***************************************************************************)
tcp_io_handle_read(h, i, res, mh_ret) ==
    LET op == rd_ops[h][i]
        S0 == [Core EXCEPT !.rd_ops[h] = RemoveAt(@, i)]
        bytes == Take(wire[h], op.len)
        vec == StoreAt(byte_vec[h], op.off, bytes)
        fr == msg_frame(hdr_processed[h], bytes)
    IN
    IF res # "ok"
    THEN /\ SetCore(m_notifier_cb(S0, res, h))
         /\ UNCHANGED <<byte_vec, hdr_processed, wire, delivered>>
    ELSE /\ wire' = [wire EXCEPT ![h] = Drop(@, op.len)]
         /\ hdr_processed' = [hdr_processed EXCEPT ![h] = fr.processed]
         /\ IF fr.next = 0
            THEN /\ delivered' = [delivered EXCEPT ![h] = Append(@, vec)]
                 /\ IF ~mh_ret
                    THEN /\ SetCore(m_notifier_cb(S0, message_handler_terminated, h))
                         /\ byte_vec' = [byte_vec EXCEPT ![h] = vec]
                    ELSE /\ byte_vec' = [byte_vec EXCEPT ![h] = Resize(vec, read_size[h])]
                         /\ SetCore(start_read(S0, h, 0, read_size[h]))
            ELSE /\ delivered' = delivered
                 /\ byte_vec' = [byte_vec EXCEPT ![h] = Resize(vec, Len(vec) + fr.next)]
                 /\ SetCore(start_read(S0, h, Len(vec), fr.next))

(* A handle_read_until that empties m_byte_vec after a delivery whatever    *)
(* was read behind the delimiter.                                          *)
handle_read_until_clearing(h, i, res, k, mh_ret) ==
    LET S0 == [Core EXCEPT !.rd_ops[h] = RemoveAt(@, i)]
        vec == byte_vec[h] \o Take(wire[h], k)
        num_bytes == MatchEnd(vec, delimiter[h])
    IN
    /\ UNCHANGED hdr_processed
    /\ IF res # "ok"
       THEN /\ SetCore(m_notifier_cb(S0, res, h))
            /\ UNCHANGED <<byte_vec, wire, delivered>>
       ELSE /\ wire' = [wire EXCEPT ![h] = Drop(@, k)]
            /\ delivered' = [delivered EXCEPT ![h] = Append(@, Take(vec, num_bytes))]
            /\ IF ~mh_ret
               THEN /\ SetCore(m_notifier_cb(S0, message_handler_terminated, h))
                    /\ byte_vec' = [byte_vec EXCEPT ![h] = vec]
               ELSE /\ byte_vec' = [byte_vec EXCEPT ![h] = <<>>]
                    /\ SetCore(start_read_until(S0, h))

(***************************************************************************)
(* tcp_io::handle_read_until, run by the completion of read i of handler h *)
(* with result res after k more bytes were put into m_byte_vec.            *)
(***************************************************************************)
tcp_io_handle_read_until(h, i, res, k, mh_ret) ==
    LET S0 == [Core EXCEPT !.rd_ops[h] = RemoveAt(@, i)]
        vec == byte_vec[h] \o Take(wire[h], k)
        num_bytes == MatchEnd(vec, delimiter[h])
    IN
    /\ UNCHANGED hdr_processed
    /\ IF res # "ok"
       THEN /\ SetCore(m_notifier_cb(S0, res, h))
            /\ UNCHANGED <<byte_vec, wire, delivered>>
       ELSE /\ wire' = [wire EXCEPT ![h] = Drop(@, k)]
            /\ delivered' = [delivered EXCEPT ![h] = Append(@, Take(vec, num_bytes))]
            /\ IF ~mh_ret
               THEN /\ SetCore(m_notifier_cb(S0, message_handler_terminated, h))
                    /\ byte_vec' = [byte_vec EXCEPT ![h] = vec]
               ELSE /\ byte_vec' = [byte_vec EXCEPT ![h] = Drop(vec, num_bytes)]
                    /\ SetCore(start_read_until(S0, h))

TcpHandleRead ==
    \E h \in created : \E i \in DOMAIN rd_ops[h] :
    \E res \in ReadResults(h, i) : \E mh_ret \in BOOLEAN :
        \* a read of no bytes that completes without error: TcpHandleReadEmpty
        /\ rd_ops[h][i].until \/ rd_ops[h][i].len > 0 \/ res # "ok"
        /\ IF rd_ops[h][i].until
           THEN \E k \in ReadUntilSizes(h, res) :
                    tcp_io_handle_read_until(h, i, res, k, mh_ret)
           ELSE tcp_io_handle_read(h, i, res, mh_ret)
        /\ UNCHANGED <<scenVars, udpVars, write_in_progress, outq, remote_endp, read_size,
                       delimiter, execq, eof,
                       created, endpoints_empty, conn_ops, ret, sio_calls, accepted,
                       written, n_sends, n_starts>>

(***************************************************************************)
(* io_common::start_write_setup (specification 4.2): "drop" when IO is not *)
(* started, "queue" when a write is in flight, else "write".               *)
(***************************************************************************)
start_write_setup(h) ==
    IF ~io_started[h] THEN "drop"
    ELSE IF write_in_progress[h] THEN "queue"
    ELSE "write"

(* tcp_io::start_write: one more async_write, of the whole buffer *)
start_write(ops, h, buf) == Append(ops, [buf |-> buf, st |-> OpStatus(Core, h)])

(***************************************************************************)
(* tcp_io::send: posts a closure to the executor.                          *)
(***************************************************************************)
tcp_io_send(h, data) ==
    /\ Alive(h)
    /\ n_sends < MaxSends
    /\ n_sends' = n_sends + 1
    /\ execq' = Append(execq, [h |-> h, buf |-> [id |-> n_sends + 1, data |-> data]])
    /\ UNCHANGED <<scenVars, udpVars, ioCommonVars, tcpIoVars, rd_ops, wr_ops, wire, eof,
                   connVars>>
    /\ UNCHANGED <<notified, cbLog, ret, sio_calls, accepted, written, delivered, n_starts>>

(* A send closure that does not test whether IO is started: it writes, or  *)
(* queues when a write is in flight.                                       *)
send_closure_not_testing_started(h, buf) ==
    LET r == IF write_in_progress[h] THEN "queue" ELSE "write" IN
    /\ write_in_progress' = [write_in_progress EXCEPT ![h] = TRUE]
    /\ outq' = [outq EXCEPT ![h] = IF r = "queue" THEN Append(@, buf) ELSE @]
    /\ accepted' = [accepted EXCEPT ![h] = Append(@, buf)]
    /\ wr_ops' = [wr_ops EXCEPT ![h] = IF r = "write" THEN start_write(@, h, buf) ELSE @]
    /\ written' = [written EXCEPT ![h] = IF r = "write" THEN Append(@, buf) ELSE @]

(* A send closure that ignores what start_write_setup answers when a write *)
(* is in flight, and starts its write at once.                             *)
send_closure_ignoring_setup(h, buf) ==
    LET r == start_write_setup(h) IN
    /\ write_in_progress' = [write_in_progress EXCEPT ![h] = @ \/ r # "drop"]
    /\ outq' = outq
    /\ accepted' = [accepted EXCEPT ![h] = IF r = "drop" THEN @ ELSE Append(@, buf)]
    /\ wr_ops' = [wr_ops EXCEPT ![h] = IF r # "drop" THEN start_write(@, h, buf) ELSE @]
    /\ written' = [written EXCEPT ![h] = IF r # "drop" THEN Append(@, buf) ELSE @]

(***************************************************************************)
(* The closure posted by tcp_io::send, run by the executor.                *)
(***************************************************************************)
tcp_io_send_closure(h, buf) ==
    LET r == start_write_setup(h) IN
    /\ write_in_progress' = [write_in_progress EXCEPT ![h] = @ \/ r = "write"]
    /\ outq' = [outq EXCEPT ![h] = IF r = "queue" THEN Append(@, buf) ELSE @]
    /\ accepted' = [accepted EXCEPT ![h] = IF r = "drop" THEN @ ELSE Append(@, buf)]
    /\ wr_ops' = [wr_ops EXCEPT ![h] = IF r = "write" THEN start_write(@, h, buf) ELSE @]
    /\ written' = [written EXCEPT ![h] = IF r = "write" THEN Append(@, buf) ELSE @]

TcpSendClosure ==
    /\ execq # <<>>
    /\ Head(execq).h \in created
    /\ tcp_io_send_closure(Head(execq).h, Head(execq).buf)
    /\ execq' = Tail(execq)
    /\ UNCHANGED <<scenVars, udpVars, io_started, tcpIoVars, rd_ops, wire, eof, connVars>>
    /\ UNCHANGED <<notified, cbLog, ret, sio_calls, delivered, n_sends, n_starts>>

(* how an outstanding async_write can complete; once the peer has gone    *)
(* away a write may still be taken by the socket or fail                   *)
WriteResults(h, i) ==
    LET op == wr_ops[h][i] IN
    (IF op.st \in {"pending", "cancelled"} THEN {"ok"} ELSE {})
    \cup (IF op.st = "cancelled" THEN {operation_aborted} ELSE {})
    \cup (IF op.st = "bad" THEN {bad_descriptor} ELSE {})
    \cup (IF op.st = "pending" /\ eof[h] THEN {broken_pipe} ELSE {})

(* A handle_write that goes on with the output queue after a write that    *)
(* failed.                                                                 *)
handle_write_ignoring_error(h, i, res) ==
    LET rest == RemoveAt(wr_ops[h], i) IN
    IF outq[h] = <<>>
    THEN /\ write_in_progress' = [write_in_progress EXCEPT ![h] = FALSE]
         /\ wr_ops' = [wr_ops EXCEPT ![h] = rest]
         /\ UNCHANGED <<outq, written>>
    ELSE /\ outq' = [outq EXCEPT ![h] = Tail(@)]
         /\ wr_ops' = [wr_ops EXCEPT ![h] = start_write(rest, h, Head(outq[h]))]
         /\ written' = [written EXCEPT ![h] = Append(@, Head(outq[h]))]
         /\ UNCHANGED write_in_progress

(* A handle_write that starts no further write when the one that completed *)
(* leaves elements in the output queue.                                    *)
handle_write_not_continuing(h, i, res) ==
    LET rest == RemoveAt(wr_ops[h], i) IN
    /\ wr_ops' = [wr_ops EXCEPT ![h] = rest]
    /\ write_in_progress' = [write_in_progress EXCEPT ![h] =
                                 IF res = "ok" /\ outq[h] = <<>> THEN FALSE ELSE @]
    /\ UNCHANGED <<outq, written>>

(* A handle_write that writes the head of the output queue without taking *)
(* it off the queue.                                                       *)
handle_write_not_popping(h, i, res) ==
    LET rest == RemoveAt(wr_ops[h], i) IN
    IF res # "ok"
    THEN /\ wr_ops' = [wr_ops EXCEPT ![h] = rest]
         /\ UNCHANGED <<write_in_progress, outq, written>>
    ELSE IF outq[h] = <<>>
    THEN /\ write_in_progress' = [write_in_progress EXCEPT ![h] = FALSE]
         /\ wr_ops' = [wr_ops EXCEPT ![h] = rest]
         /\ UNCHANGED <<outq, written>>
    ELSE /\ outq' = outq
         /\ wr_ops' = [wr_ops EXCEPT ![h] = start_write(rest, h, Head(outq[h]))]
         /\ written' = [written EXCEPT ![h] = Append(@, Head(outq[h]))]
         /\ UNCHANGED write_in_progress

(***************************************************************************)
(* tcp_io::handle_write, run by the completion of write i of handler h.    *)
(* io_common::get_next_element (specification 4.2) pops the next queued    *)
(* element and keeps the write flag, else clears the flag.                 *)
(***************************************************************************)
tcp_io_handle_write(h, i, res) ==
    LET rest == RemoveAt(wr_ops[h], i) IN
    IF res # "ok"
    THEN /\ wr_ops' = [wr_ops EXCEPT ![h] = rest]
         /\ UNCHANGED <<write_in_progress, outq, written>>
    ELSE IF outq[h] = <<>>
    THEN /\ write_in_progress' = [write_in_progress EXCEPT ![h] = FALSE]
         /\ wr_ops' = [wr_ops EXCEPT ![h] = rest]
         /\ UNCHANGED <<outq, written>>
    ELSE /\ outq' = [outq EXCEPT ![h] = Tail(@)]
         /\ wr_ops' = [wr_ops EXCEPT ![h] = start_write(rest, h, Head(outq[h]))]
         /\ written' = [written EXCEPT ![h] = Append(@, Head(outq[h]))]
         /\ UNCHANGED write_in_progress

TcpHandleWrite ==
    \E h \in created : \E i \in DOMAIN wr_ops[h] : \E res \in WriteResults(h, i) :
        /\ tcp_io_handle_write(h, i, res)
        /\ wire' = IF res = "ok" /\ mode = "pair"
                   THEN [wire EXCEPT ![Peer(h)] = @ \o wr_ops[h][i].buf.data]
                   ELSE wire
        /\ UNCHANGED <<scenVars, udpVars, io_started, tcpIoVars, rd_ops, execq, eof, connVars>>
        /\ UNCHANGED <<notified, cbLog, ret, sio_calls, accepted, delivered, n_sends, n_starts>>

(***************************************************************************)
(* The handler pair scenario.                                              *)
(***************************************************************************)
(* the thread that runs the executor's event loop, and an application     *)
(* thread that does not                                                    *)
Executor == "executor"
AppThread == "app"
(* the threads stop and stop_io are called from: any thread where the      *)
(* entity is only started and stopped, the executor thread (from within a  *)
(* callback) in the other scenarios                                        *)
CallerThreads == IF mode = "udp_cycle" THEN {Executor, AppThread} ELSE {Executor}

(* a call made directly runs on the caller's thread; only what is handed   *)
(* to post runs on the executor thread                                     *)
DirectCall(op, t) == [op |-> op, caller |-> t, ran_on |-> t]

InitThreads == last_stop = DirectCall("none", Executor)

(* a default constructed wait_queue: empty and open; no thread is in a call *)
InitWaitQueue ==
    /\ m_data_queue = <<>>
    /\ m_closed = FALSE
    /\ cons = [c \in 1 .. MaxConsumers |-> "idle"]
    /\ pushed = <<>>
    /\ popped = <<>>
    /\ wq_ret = [op |-> "none", c |-> 0, ok |-> FALSE,
                 val |-> [id |-> 0, io |-> 0, num |-> 0, starting |-> FALSE]]
    /\ n_pushes = 0
    /\ n_closes = 0
    /\ chg = <<>>
    /\ ios_calls = <<>>

(* the entities behind the application's handles: alive, not started *)
InitEnts ==
    /\ ents = [e \in 1 .. MaxEnts |-> [alive |-> TRUE, started |-> FALSE, calls |-> 0]]
    /\ hret = [op |-> "none", a |-> 0, b |-> 0, val |-> FALSE, lt |-> FALSE, thrown |-> ""]

InitHandlers ==
    /\ io_started = [h \in HIds |-> FALSE]
    /\ write_in_progress = [h \in HIds |-> FALSE]
    /\ outq = [h \in HIds |-> <<>>]
    \* a tcp_io is built around a connected socket, a udp_entity_io opens its own
    /\ sock = [h \in HIds |-> IF mode \in UdpModes THEN "closed" ELSE "open"]
    /\ remote_endp = [h \in HIds |-> FALSE]
    /\ byte_vec = [h \in HIds |-> <<>>]
    /\ read_size = [h \in HIds |-> 0]
    /\ delimiter = [h \in HIds |-> <<>>]
    /\ hdr_processed = [h \in HIds |-> FALSE]
    /\ rd_ops = [h \in HIds |-> <<>>]
    /\ wr_ops = [h \in HIds |-> <<>>]
    /\ execq = <<>>
    /\ wire = [h \in HIds |-> <<>>]
    /\ eof = [h \in HIds |-> FALSE]
    /\ notified = <<>>
    /\ cbLog = <<>>
    /\ ret = [op |-> "none", h |-> NoHandler, val |-> FALSE, again |-> FALSE]
    /\ sio_calls = [h \in HIds |-> 0]
    /\ accepted = [h \in HIds |-> <<>>]
    /\ written = [h \in HIds |-> <<>>]
    /\ delivered = [h \in HIds |-> <<>>]
    /\ n_sends = 0
    /\ n_starts = 0

InitNoUdp ==
    /\ local_endp = "any"
    /\ default_dest = NoEndp
    /\ max_size = 0

InitPair ==
    /\ mode = "pair"
    /\ InitEnts
    /\ InitThreads
    /\ InitWaitQueue
    /\ delim \in Delims
    /\ InitHandlers
    /\ InitNoUdp
    /\ created = {1, 2}
    /\ c_started = FALSE
    /\ handlers = {}
    /\ endpoints_empty = FALSE
    /\ res_ops = <<>>
    /\ conn_ops = 0

TcpStartIo == \E h \in created : tcp_io_start_io(h)
(* the connector scenario's application also stops handlers itself *)
TcpStopIo ==
    /\ mode \in {"conn", "acc"}
    /\ \E h \in created : tcp_io_stop_io(h)
TcpSend ==
    /\ mode = "pair"
    /\ \E data \in MsgsFor(delim) : tcp_io_send(Sender, data)

NextPair ==
    \/ TcpStartIo
    \/ TcpSend
    \/ TcpSendClosure
    \/ TcpHandleRead
    \/ TcpHandleWrite

SpecPair == InitPair /\ [][NextPair]_vars

(***************************************************************************)
(* The TCP connector scenario.                                             *)
(***************************************************************************)
(* net_entity_base::stop_io_all (specification 4.6): stop_io on every handler *)
RECURSIVE stop_io_all_from(_, _)
stop_io_all_from(S, hs) ==
    IF hs = {} THEN S
    ELSE stop_io_all_from(tcp_io_stop_io_f(S, Min(hs)), hs \ {Min(hs)})

stop_io_all(S) == stop_io_all_from(S, S.handlers)

(* m_timer: the connector cancels it in stop and nowhere starts it, and
   handle_timeout is empty, so no timer wait is ever outstanding *)
TimerArmed == FALSE

(* A stop that does not return early when the connector is already stopped. *)
connector_stop_unguarded(S) ==
    LET S1 == [S EXCEPT !.c_started = FALSE, !.res_ops = CancelOps(@)]
        S2 == clear_handlers(stop_io_all(S1))
    IN call_shutdown_change_cb(S2, tcp_connector_stopped, NoHandler)

(***************************************************************************)
(* tcp_connector::stop.  m_timer is never started by the connector, so     *)
(* m_timer.cancel() has nothing to cancel and the model holds no timer.    *)
(***************************************************************************)
tcp_connector_stop(S) ==
    IF ~S.c_started THEN S
    ELSE LET S1 == [S EXCEPT !.c_started = FALSE, !.res_ops = CancelOps(@)]
             S2 == clear_handlers(stop_io_all(S1))
         IN call_shutdown_change_cb(S2, tcp_connector_stopped, NoHandler)

(* basic_net_entity::stop on a handle to the connector *)
TcpConnectorStop ==
    /\ mode = "conn"
    /\ SetCore(tcp_connector_stop(Core))
    /\ ret' = Ret("stop", NoHandler, TRUE)
    /\ UNCHANGED <<scenVars, udpVars, write_in_progress, outq, remote_endp, byte_vec,
                   read_size, delimiter,
                   hdr_processed, execq, wire, eof, created, endpoints_empty, conn_ops,
                   sio_calls, accepted, written, delivered, n_sends, n_starts>>

(***************************************************************************)
(* tcp_connector::start                                                    *)
(***************************************************************************)
tcp_connector_start ==
    IF c_started
    THEN UNCHANGED <<c_started, res_ops, conn_ops>>
    ELSE /\ c_started' = TRUE
         /\ IF endpoints_empty
            THEN /\ res_ops' = Append(res_ops, [st |-> "pending"])
                 /\ UNCHANGED conn_ops
            ELSE /\ conn_ops' = conn_ops + 1
                 /\ UNCHANGED res_ops

TcpConnectorStart ==
    /\ mode = "conn"
    \* n_starts counts the calls that found the entity not started
    /\ c_started \/ n_starts < MaxStarts
    /\ n_starts' = IF c_started THEN n_starts ELSE n_starts + 1
    /\ tcp_connector_start
    /\ ret' = Ret("start", NoHandler, TRUE)
    /\ UNCHANGED <<scenVars, udpVars, ioCommonVars, tcpIoVars, rd_ops, wr_ops, execq, wire, eof,
                   created, handlers, endpoints_empty, notified, cbLog, sio_calls, accepted,
                   written, delivered, n_sends>>

(* how an outstanding resolve can complete *)
ResolveResults(i) ==
    IF res_ops[i].st = "cancelled" THEN {"ok", operation_aborted} ELSE {"ok", host_not_found}

(* A handle_resolve that reports a failed resolve and leaves the connector *)
(* started.                                                                *)
handle_resolve_not_stopping(i, res) ==
    LET S0 == [Core EXCEPT !.res_ops = RemoveAt(@, i)] IN
    IF res # "ok"
    THEN /\ SetCore(call_shutdown_change_cb(S0, res, NoHandler))
         /\ UNCHANGED <<endpoints_empty, conn_ops>>
    ELSE IF ~c_started
    THEN /\ SetCore(S0)
         /\ UNCHANGED <<endpoints_empty, conn_ops>>
    ELSE /\ SetCore(S0)
         /\ endpoints_empty' = FALSE
         /\ conn_ops' = conn_ops + 1

(***************************************************************************)
(* tcp_connector::handle_resolve                                           *)
(***************************************************************************)
tcp_connector_handle_resolve(i, res) ==
    LET S0 == [Core EXCEPT !.res_ops = RemoveAt(@, i)] IN
    IF res # "ok"
    THEN /\ SetCore(tcp_connector_stop(call_shutdown_change_cb(S0, res, NoHandler)))
         /\ UNCHANGED <<endpoints_empty, conn_ops>>
    ELSE IF ~c_started
    THEN /\ SetCore(S0)
         /\ UNCHANGED <<endpoints_empty, conn_ops>>
    ELSE /\ SetCore(S0)
         /\ endpoints_empty' = FALSE
         /\ conn_ops' = conn_ops + 1

TcpConnectorHandleResolve ==
    \E i \in DOMAIN res_ops : \E res \in ResolveResults(i) :
        /\ tcp_connector_handle_resolve(i, res)
        /\ UNCHANGED <<scenVars, udpVars, write_in_progress, outq, remote_endp, byte_vec,
                       read_size, delimiter,
                       hdr_processed, execq, wire, eof, created, ret, sio_calls, accepted,
                       written, delivered, n_sends, n_starts>>

(***************************************************************************)
(* tcp_connector::handle_connect.  On success it makes the tcp_io object   *)
(* h; its last statement, start_accept(), names no member of the connector *)
(* and has no counterpart here.                                            *)
(***************************************************************************)
tcp_connector_handle_connect(res, h) ==
    IF res # "ok"
    THEN /\ SetCore(tcp_connector_stop(call_shutdown_change_cb(Core, res, NoHandler)))
         /\ UNCHANGED created
    ELSE /\ created' = created \cup {h}
         /\ SetCore(call_start_change_cb(add_handler(Core, h), h))

TcpConnectorHandleConnect ==
    /\ conn_ops > 0
    /\ HIds \ created # {}
    /\ \E res \in {"ok", connect_refused} :
        tcp_connector_handle_connect(res, Min(HIds \ created))
    /\ conn_ops' = conn_ops - 1
    /\ UNCHANGED <<scenVars, udpVars, write_in_progress, outq, remote_endp, byte_vec,
                   read_size, delimiter,
                   hdr_processed, execq, wire, eof, endpoints_empty, ret, sio_calls,
                   accepted, written, delivered, n_sends, n_starts>>

(* the remote peer of a connection goes away *)
PeerUnplug ==
    /\ mode \in {"conn", "acc"}
    /\ \E h \in created :
           /\ sock[h] = "open"
           /\ ~eof[h]
           /\ eof' = [eof EXCEPT ![h] = TRUE]
           /\ UNCHANGED <<scenVars, udpVars, ioCommonVars, tcpIoVars, rd_ops, wr_ops,
                          execq, wire,
                          connVars, obsVars>>

InitConn ==
    /\ mode = "conn"
    /\ InitEnts
    /\ InitThreads
    /\ InitWaitQueue
    /\ delim \in Delims
    /\ InitHandlers
    /\ InitNoUdp
    /\ created = {}
    /\ c_started = FALSE
    /\ handlers = {}
    /\ endpoints_empty \in BOOLEAN
    /\ res_ops = <<>>
    /\ conn_ops = 0

NextConn ==
    \/ TcpConnectorStart
    \/ TcpConnectorStop
    \/ TcpConnectorHandleResolve
    \/ TcpConnectorHandleConnect
    \/ PeerUnplug
    \/ TcpStartIo
    \/ TcpStopIo
    \/ TcpHandleRead

SpecConn == InitConn /\ [][NextConn]_vars

(***************************************************************************)
(* The acceptor scenario (specification 4.5): one tcp_acceptor. Each       *)
(* accepted socket gets a tcp_io, which is inserted into the live-handler  *)
(* set before ioReadyCb is invoked with the connection count.              *)
(***************************************************************************)
(* an accept callback that reports the count before inserting the handler  *)
(* (for comparison)                                                        *)
accept_reporting_before_insert(h) ==
    /\ created' = created \cup {h}
    /\ SetCore(add_handler(call_start_change_cb(Core, h), h))

tcp_acceptor_handle_accept(h) ==
    /\ created' = created \cup {h}
    /\ SetCore(call_start_change_cb(add_handler(Core, h), h))

(* stop: iterate the handler set closing each, firing stopCb for each *)
RECURSIVE acceptor_close_all_from(_, _)
acceptor_close_all_from(S, hs) ==
    IF hs = {} THEN S
    ELSE acceptor_close_all_from(notify_me(S, tcp_io_handler_stopped, Min(hs)),
                                 hs \ {Min(hs)})

tcp_acceptor_stop(S) ==
    IF ~S.c_started THEN S
    ELSE clear_handlers(acceptor_close_all_from([S EXCEPT !.c_started = FALSE],
                                                S.handlers))

TcpAcceptorStart ==
    /\ mode = "acc"
    /\ ~c_started
    /\ n_starts < MaxStarts
    /\ n_starts' = n_starts + 1
    /\ c_started' = TRUE
    /\ UNCHANGED <<scenVars, udpVars, ioCommonVars, tcpIoVars, runtimeVars, created, handlers,
                   endpoints_empty, res_ops, conn_ops, notified, cbLog, ret, sio_calls,
                   accepted, written, delivered, n_sends>>

(* the outstanding async_accept completes with a new connection *)
TcpAcceptorHandleAccept ==
    /\ mode = "acc"
    /\ c_started
    /\ HIds \ created # {}
    /\ tcp_acceptor_handle_accept(Min(HIds \ created))
    /\ UNCHANGED <<scenVars, udpVars, write_in_progress, outq, remote_endp, byte_vec,
                   read_size, delimiter,
                   hdr_processed, execq, wire, eof, endpoints_empty, conn_ops, ret, sio_calls,
                   accepted, written, delivered, n_sends, n_starts>>

TcpAcceptorStop ==
    /\ mode = "acc"
    /\ SetCore(tcp_acceptor_stop(Core))
    /\ ret' = Ret("stop", NoHandler, c_started)
    /\ UNCHANGED <<scenVars, udpVars, write_in_progress, outq, remote_endp, byte_vec,
                   read_size, delimiter,
                   hdr_processed, execq, wire, eof, created, endpoints_empty, conn_ops,
                   sio_calls, accepted, written, delivered, n_sends, n_starts>>

InitAcc ==
    /\ mode = "acc"
    /\ InitEnts
    /\ InitThreads
    /\ InitWaitQueue
    /\ delim = <<>>
    /\ InitHandlers
    /\ InitNoUdp
    /\ created = {}
    /\ c_started = FALSE
    /\ handlers = {}
    /\ endpoints_empty = FALSE
    /\ res_ops = <<>>
    /\ conn_ops = 0

NextAcc ==
    \/ TcpAcceptorStart
    \/ TcpAcceptorHandleAccept
    \/ TcpAcceptorStop
    \/ PeerUnplug
    \/ TcpStartIo
    \/ TcpStopIo
    \/ TcpHandleRead

SpecAcc == InitAcc /\ [][NextAcc]_vars

(***************************************************************************)
(* The UDP scenario: one udp_entity_io object, U.                          *)
(***************************************************************************)
U == 1
(* the start calls made in a scenario: MaxUdpStarts where datagrams flow,  *)
(* MaxStarts where the entity is only started and stopped                  *)
UdpStartBound == IF mode = "udp" THEN MaxUdpStarts ELSE MaxStarts
(* the datagrams sent and received *)
UdpMsgs == {MakeMsg(MaxBody)}
udp_io_handler_stopped == "udp_io_handler_stopped"
udp_entity_stopped == "udp_entity_stopped"
already_open == "already_open"
address_in_use == "address_in_use"

(* the application holds an io_interface only once the state change
   callback has handed it one *)
HasIoInterface == \E i \in DOMAIN cbLog : cbLog[i].kind = "start"

(* net_entity_common (specification 4.7): the two callbacks given to start *)
call_io_state_chg_cb(S, n, starting) ==
    [S EXCEPT !.cbLog = Append(@, [kind |-> IF starting THEN "start" ELSE "stop",
                                   err |-> "", h |-> U, n |-> n])]

call_error_cb(S, err) ==
    [S EXCEPT !.cbLog = Append(@, [kind |-> "err", err |-> err, h |-> U, n |-> 0])]

(* udp_entity_io::err_notify *)
err_notify(S, err) == call_error_cb(S, err)

(***************************************************************************)
(* detail::fut_io_state_chg_cb given to start as the state change          *)
(* callback: each invocation with starting = true calls set_value on       *)
(* m_start_prom, each other invocation calls it on m_stop_prom. The number *)
(* of set_value calls made on one of the two promises; a std::promise      *)
(* takes one, a second throws promise_already_satisfied.                   *)
(***************************************************************************)
fut_io_state_chg_cb(log, starting) ==
    Cardinality({i \in DOMAIN log :
                    log[i].kind = IF starting THEN "start" ELSE "stop"})

(***************************************************************************)
(* udp_entity_io::stop_io                                                  *)
(***************************************************************************)
udp_stop_io(S) ==
    LET r == io_common_stop(S, U) IN
    IF ~r.ok THEN S
    ELSE LET S1 == [r.S EXCEPT !.sock[U] = "closed",
                               !.rd_ops[U] = CancelOps(@),
                               !.wr_ops[U] = CancelOps(@)]
         IN call_io_state_chg_cb(err_notify(S1, udp_io_handler_stopped), 0, FALSE)

(***************************************************************************)
(* udp_entity_io::stop                                                     *)
(***************************************************************************)
udp_stop(S) ==
    IF ~S.c_started THEN S
    ELSE err_notify(udp_stop_io([S EXCEPT !.c_started = FALSE]), udp_entity_stopped)

UdpStop ==
    /\ mode \in UdpModes
    /\ SetCore(udp_stop(Core))
    /\ ret' = Ret("stop", U, c_started)
    /\ \E t \in CallerThreads :
           last_stop' = IF c_started THEN DirectCall("stop", t) ELSE last_stop
    /\ UNCHANGED <<mode, delim, handleVars, wqVars, udpVars, write_in_progress, outq,
                   tcpFrameVars, execq, wire, eof,
                   created, endpoints_empty, conn_ops, sio_calls, accepted, written,
                   delivered, n_sends, n_starts>>

UdpStopIo ==
    /\ mode \in UdpModes
    /\ SetCore(udp_stop_io(Core))
    /\ ret' = Ret("stop_io", U, io_started[U])
    /\ \E t \in CallerThreads :
           last_stop' = IF io_started[U] THEN DirectCall("stop_io", t) ELSE last_stop
    /\ UNCHANGED <<mode, delim, handleVars, wqVars, udpVars, write_in_progress, outq,
                   tcpFrameVars, execq, wire, eof,
                   created, endpoints_empty, conn_ops, sio_calls, accepted, written,
                   delivered, n_sends, n_starts>>

(* what opening (m_local_endp default constructed) or opening and binding
   the socket in start can throw *)
OpenResults ==
    IF local_endp = "any"
    THEN (IF sock[U] = "open" THEN {already_open} ELSE {"ok"})
    ELSE {"ok", address_in_use}

(* a start that does not look at the started flag (for comparison) *)
udp_start_ignoring_started(res) ==
    LET S0 == [Core EXCEPT !.c_started = TRUE] IN
    IF res # "ok"
    THEN /\ SetCore(udp_stop(err_notify(S0, res)))
         /\ ret' = Ret("start", U, FALSE)
    ELSE /\ SetCore(call_io_state_chg_cb([S0 EXCEPT !.sock[U] = "open"], 1, TRUE))
         /\ ret' = Ret("start", U, TRUE)

(* a start that reports a failed open or bind but does not stop the entity *)
(* (for comparison)                                                        *)
udp_start_not_stopping(res) ==
    IF c_started
    THEN /\ SetCore(Core)
         /\ ret' = Ret("start", U, FALSE)
    ELSE LET S0 == [Core EXCEPT !.c_started = TRUE] IN
         IF res # "ok"
         THEN /\ SetCore(err_notify(S0, res))
              /\ ret' = Ret("start", U, FALSE)
         ELSE /\ SetCore(call_io_state_chg_cb([S0 EXCEPT !.sock[U] = "open"], 1, TRUE))
              /\ ret' = Ret("start", U, TRUE)

(***************************************************************************)
(* udp_entity_io::start                                                    *)
(***************************************************************************)
udp_start(res) ==
    IF c_started
    THEN /\ SetCore(Core)
         /\ ret' = Ret("start", U, FALSE)
    ELSE LET S0 == [Core EXCEPT !.c_started = TRUE] IN
         IF res # "ok"
         THEN /\ SetCore(udp_stop(err_notify(S0, res)))
              /\ ret' = Ret("start", U, FALSE)
         ELSE \* a socket move-assigned over is closed first
              LET S1 == IF local_endp = "any" THEN S0
                        ELSE [S0 EXCEPT !.rd_ops[U] = CancelOps(@),
                                        !.wr_ops[U] = CancelOps(@)]
                  S2 == [S1 EXCEPT !.sock[U] = "open"]
              IN /\ SetCore(call_io_state_chg_cb(S2, 1, TRUE))
                 /\ ret' = Ret("start", U, TRUE)

UdpStart ==
    /\ mode \in UdpModes
    /\ c_started \/ n_starts < UdpStartBound
    /\ n_starts' = IF c_started THEN n_starts ELSE n_starts + 1
    /\ \E res \in OpenResults : udp_start(res)
    /\ UNCHANGED <<scenVars, udpVars, write_in_progress, outq, tcpFrameVars, execq, wire, eof,
                   created, endpoints_empty, conn_ops, sio_calls, accepted, written,
                   delivered, n_sends>>

(* udp_entity_io::start_read *)
udp_start_read(S) ==
    [S EXCEPT !.rd_ops[U] = Append(@, [off |-> 0, len |-> 0, st |-> OpStatus(S, U)])]

(***************************************************************************)
(* udp_entity_io::start_io, its four overloads: with or without a message  *)
(* handler (reading), with or without a default destination endp.          *)
(***************************************************************************)
udp_start_io(reading, endp) ==
    LET r == set_io_started(Core, U) IN
    /\ HasIoInterface
    /\ io_started[U] \/ sio_calls[U] < MaxStartIo
    /\ sio_calls' = [sio_calls EXCEPT ![U] = IF io_started[U] THEN @ ELSE @ + 1]
    /\ ret' = Ret("start_io", U, r.ok)
    /\ IF ~r.ok
       THEN /\ SetCore(Core)
            /\ UNCHANGED <<default_dest, max_size, byte_vec>>
       ELSE /\ max_size' = IF reading THEN HdrSize + MaxBody ELSE max_size
            /\ default_dest' = IF endp # NoEndp THEN endp ELSE default_dest
            /\ byte_vec' = IF reading
                           THEN [byte_vec EXCEPT ![U] = Resize(@, HdrSize + MaxBody)]
                           ELSE byte_vec
            /\ SetCore(IF reading THEN udp_start_read(r.S) ELSE r.S)

UdpStartIo ==
    /\ mode \in UdpModes
    /\ \E reading \in BOOLEAN : \E endp \in {NoEndp} \cup DefaultEndps : udp_start_io(reading, endp)
    /\ UNCHANGED <<scenVars, local_endp, write_in_progress, outq, tcpReadVars, execq, wire, eof,
                   created, endpoints_empty, conn_ops, accepted, written,
                   delivered, n_sends, n_starts>>

(***************************************************************************)
(* udp_entity_io::send, both overloads (endp = NoEndp: the one without a   *)
(* destination): posts a closure to the executor.                          *)
(***************************************************************************)
udp_send(data, endp) ==
    /\ HasIoInterface
    /\ n_sends < MaxUdpSends
    /\ n_sends' = n_sends + 1
    /\ execq' = Append(execq, [h |-> U, buf |-> [id |-> n_sends + 1, data |-> data,
                                                 endp |-> endp]])

UdpSend ==
    /\ mode = "udp"
    /\ \E data \in UdpMsgs : \E endp \in {NoEndp} \cup SendEndps : udp_send(data, endp)
    /\ UNCHANGED <<scenVars, udpVars, ioCommonVars, tcpIoVars, rd_ops, wr_ops, wire, eof,
                   connVars>>
    /\ UNCHANGED <<notified, cbLog, ret, sio_calls, accepted, written, delivered, n_starts>>

(* udp_entity_io::start_write: one more async_send_to *)
udp_start_write(ops, buf, dest) ==
    Append(ops, [buf |-> buf, dest |-> dest, st |-> OpStatus(Core, U)])

(* the destination of a buffer: its own, else m_default_dest_endp *)
DestOf(buf) == IF buf.endp # NoEndp THEN buf.endp ELSE default_dest

(***************************************************************************)
(* The closure posted by udp_entity_io::send, run by the executor.         *)
(***************************************************************************)
udp_send_closure(buf) ==
    LET r == start_write_setup(U) IN
    /\ write_in_progress' = [write_in_progress EXCEPT ![U] = @ \/ r = "write"]
    /\ outq' = [outq EXCEPT ![U] = IF r = "queue" THEN Append(@, buf) ELSE @]
    /\ accepted' = [accepted EXCEPT ![U] = IF r = "drop" THEN @ ELSE Append(@, buf)]
    /\ wr_ops' = [wr_ops EXCEPT ![U] = IF r = "write"
                                       THEN udp_start_write(@, buf, DestOf(buf)) ELSE @]
    /\ written' = [written EXCEPT ![U] = IF r = "write" THEN Append(@, buf) ELSE @]

UdpSendClosure ==
    /\ mode = "udp"
    /\ execq # <<>>
    /\ udp_send_closure(Head(execq).buf)
    /\ execq' = Tail(execq)
    /\ UNCHANGED <<scenVars, udpVars, io_started, tcpIoVars, rd_ops, wire, eof, connVars>>
    /\ UNCHANGED <<notified, cbLog, ret, sio_calls, delivered, n_sends, n_starts>>

invalid_argument == "invalid_argument"

(* how an outstanding async_send_to can complete *)
UdpWriteResults(i) ==
    LET op == wr_ops[U][i] IN
    IF op.st = "bad" THEN {bad_descriptor}
    ELSE IF op.dest = NoEndp THEN {invalid_argument}
    ELSE IF op.st = "cancelled" THEN {"ok", operation_aborted}
    ELSE {"ok"}

(***************************************************************************)
(* udp_entity_io::handle_write, run by the completion of write i.          *)
(***************************************************************************)
udp_handle_write(i, res) ==
    LET rest == RemoveAt(wr_ops[U], i)
        S0 == [Core EXCEPT !.wr_ops[U] = rest]
    IN
    IF res # "ok"
    THEN /\ SetCore(udp_stop(err_notify(S0, res)))
         /\ UNCHANGED <<write_in_progress, outq, written>>
    ELSE IF outq[U] = <<>>
    THEN /\ write_in_progress' = [write_in_progress EXCEPT ![U] = FALSE]
         /\ SetCore(S0)
         /\ UNCHANGED <<outq, written>>
    ELSE /\ outq' = [outq EXCEPT ![U] = Tail(@)]
         /\ SetCore([S0 EXCEPT !.wr_ops[U] =
                        udp_start_write(rest, Head(outq[U]), DestOf(Head(outq[U])))])
         /\ written' = [written EXCEPT ![U] = Append(@, Head(outq[U]))]
         /\ UNCHANGED write_in_progress

UdpHandleWrite ==
    /\ mode = "udp"
    /\ \E i \in DOMAIN wr_ops[U] : \E res \in UdpWriteResults(i) :
           /\ udp_handle_write(i, res)
           /\ UNCHANGED <<scenVars, udpVars, tcpFrameVars, execq, wire, eof, created,
                          endpoints_empty, conn_ops>>
           /\ UNCHANGED <<ret, sio_calls, accepted, delivered, n_sends, n_starts>>

(* a datagram from a peer reaches the open socket *)
UdpArrive ==
    /\ mode = "udp"
    /\ sock[U] = "open"
    /\ Len(wire[U]) + Len(delivered[U]) < MaxDgrams
    /\ \E data \in UdpMsgs : wire' = [wire EXCEPT ![U] = Append(@, data)]
    /\ UNCHANGED <<scenVars, udpVars, ioCommonVars, tcpIoVars, rd_ops, wr_ops, execq, eof,
                   connVars>>
    /\ UNCHANGED obsVars

(* how an outstanding async_receive_from can complete *)
UdpReadResults(i) ==
    LET op == rd_ops[U][i] IN
    IF op.st = "bad" THEN {bad_descriptor}
    ELSE (IF wire[U] # <<>> THEN {"ok"} ELSE {})
         \cup (IF op.st = "cancelled" THEN {operation_aborted} ELSE {})

(***************************************************************************)
(* udp_entity_io::handle_read, run by the completion of read i with result *)
(* res; mh_ret is what the message handler returns if it is called.        *)
(***************************************************************************)
udp_handle_read(i, res, mh_ret) ==
    LET S0 == [Core EXCEPT !.rd_ops[U] = RemoveAt(@, i)]
        \* a datagram longer than the buffer is cut to the buffer's size
        dgram == IF Len(Head(wire[U])) <= max_size THEN Head(wire[U])
                 ELSE Take(Head(wire[U]), max_size)
    IN
    IF res # "ok"
    THEN /\ SetCore(udp_stop(err_notify(S0, res)))
         /\ UNCHANGED <<byte_vec, wire, delivered>>
    ELSE /\ wire' = [wire EXCEPT ![U] = Tail(@)]
         /\ byte_vec' = [byte_vec EXCEPT ![U] = StoreAt(@, 0, dgram)]
         /\ delivered' = [delivered EXCEPT ![U] = Append(@, dgram)]
         /\ IF ~mh_ret
            THEN SetCore(udp_stop(err_notify(S0, message_handler_terminated)))
            ELSE SetCore(udp_start_read(S0))

UdpHandleRead ==
    /\ mode \in UdpModes
    /\ \E i \in DOMAIN rd_ops[U] : \E res \in UdpReadResults(i) : \E mh_ret \in BOOLEAN :
           /\ udp_handle_read(i, res, mh_ret)
           /\ UNCHANGED <<scenVars, udpVars, write_in_progress, outq, tcpReadVars, execq,
                          eof, created,
                          endpoints_empty, conn_ops, ret, sio_calls, accepted, written,
                          n_sends, n_starts>>

InitUdp ==
    /\ mode = "udp"
    /\ InitEnts
    /\ InitThreads
    /\ InitWaitQueue
    /\ delim = <<>>
    /\ InitHandlers
    /\ local_endp \in {"any", "bound"}
    /\ default_dest = NoEndp
    /\ max_size = 0
    /\ created = {}
    /\ c_started = FALSE
    /\ handlers = {}
    /\ endpoints_empty = FALSE
    /\ res_ops = <<>>
    /\ conn_ops = 0

InitUdpCycle ==
    /\ mode = "udp_cycle"
    /\ InitEnts
    /\ InitThreads
    /\ InitWaitQueue
    /\ delim = <<>>
    /\ InitHandlers
    /\ local_endp \in {"any", "bound"}
    /\ default_dest = NoEndp
    /\ max_size = 0
    /\ created = {}
    /\ c_started = FALSE
    /\ handlers = {}
    /\ endpoints_empty = FALSE
    /\ res_ops = <<>>
    /\ conn_ops = 0

NextUdp ==
    \/ UdpStart
    \/ UdpStop
    \/ UdpStartIo
    \/ UdpStopIo
    \/ UdpSend
    \/ UdpSendClosure
    \/ UdpHandleWrite
    \/ UdpArrive
    \/ UdpHandleRead

SpecUdp == InitUdp /\ [][NextUdp]_vars

(***************************************************************************)
(* basic_net_entity: a handle holds a weak pointer m_eh_wptr to an entity. *)
(* A handle is NoEntity (default constructed) or names the entity it was   *)
(* made for; entities are named by their addresses.                        *)
(***************************************************************************)
NoEntity == 0
Ents == 1 .. MaxEnts
EHandles == {NoEntity} \cup Ents
weak_ptr_expired == "weak_ptr_expired"

(* m_eh_wptr.lock(): the entity while it is alive, else a null pointer *)
lock(h) == IF h # NoEntity /\ ents[h].alive THEN h ELSE NoEntity

(* basic_net_entity::is_valid *)
is_valid(h) == lock(h) # NoEntity

(* ET::start and ET::stop as the handle sees them: the call reaches the    *)
(* entity, whose started flag follows it                                   *)
entity_start(e) == [ents EXCEPT ![e].started = TRUE, ![e].calls = @ + 1]
entity_stop(e) == [ents EXCEPT ![e].started = FALSE, ![e].calls = @ + 1]

HRet(op, a, b, val, lt, thrown) ==
    [op |-> op, a |-> a, b |-> b, val |-> val, lt |-> lt, thrown |-> thrown]

(* the calls that reach one entity are bounded *)
CallAllowed(h) == lock(h) # NoEntity => ents[lock(h)].calls < MaxCalls

(* a start that uses the handle without locking it (for comparison) *)
start_without_lock(h) ==
    /\ h # NoEntity => ents[h].calls < MaxCalls
    /\ ents' = IF h # NoEntity THEN entity_start(h) ELSE ents
    /\ hret' = HRet("start", h, NoEntity, h # NoEntity, FALSE, "")

(***************************************************************************)
(* basic_net_entity::start (both overloads) and basic_net_entity::stop     *)
(***************************************************************************)
basic_net_entity_start(h) ==
    LET p == lock(h) IN
    /\ CallAllowed(h)
    /\ ents' = IF p # NoEntity THEN entity_start(p) ELSE ents
    /\ hret' = HRet("start", h, NoEntity, p # NoEntity, FALSE, "")

basic_net_entity_stop(h) ==
    LET p == lock(h) IN
    /\ CallAllowed(h)
    /\ ents' = IF p # NoEntity THEN entity_stop(p) ELSE ents
    /\ hret' = HRet("stop", h, NoEntity, p # NoEntity, FALSE, "")

(***************************************************************************)
(* basic_net_entity::is_started and basic_net_entity::get_socket: they     *)
(* throw net_ip_exception(weak_ptr_expired) when lock() gives nothing.     *)
(***************************************************************************)
basic_net_entity_is_started(h) ==
    LET p == lock(h) IN
    /\ ents' = ents
    /\ hret' = IF p # NoEntity
               THEN HRet("is_started", h, NoEntity, ents[p].started, FALSE, "")
               ELSE HRet("is_started", h, NoEntity, FALSE, FALSE, weak_ptr_expired)

basic_net_entity_get_socket(h) ==
    LET p == lock(h) IN
    /\ ents' = ents
    /\ hret' = IF p # NoEntity
               THEN HRet("get_socket", h, NoEntity, TRUE, FALSE, "")
               ELSE HRet("get_socket", h, NoEntity, FALSE, FALSE, weak_ptr_expired)

(* an equality that compares the handles themselves, not what they lock   *)
(* (for comparison)                                                        *)
eq_without_lock(a, b) == a = b

(***************************************************************************)
(* basic_net_entity::operator== and operator<: comparisons of the locked   *)
(* shared pointers, which compare the entities' addresses.                 *)
(***************************************************************************)
operator_eq(a, b) ==
    LET lp == lock(a)
        rp == lock(b)
    IN (lp # NoEntity /\ rp # NoEntity /\ lp = rp) \/ (lp = NoEntity /\ rp = NoEntity)

operator_lt(a, b) ==
    LET lp == lock(a)
        rp == lock(b)
    IN (lp # NoEntity /\ rp # NoEntity /\ lp < rp) \/ (lp = NoEntity /\ rp # NoEntity)

otherVars == <<delim, last_stop, wqVars, ioCommonVars, tcpIoVars, runtimeVars, connVars, udpVars, obsVars>>

HandleStart ==
    /\ mode = "handle"
    /\ \E h \in EHandles : basic_net_entity_start(h)
    /\ UNCHANGED <<mode, otherVars>>

HandleStop ==
    /\ mode = "handle"
    /\ \E h \in EHandles : basic_net_entity_stop(h)
    /\ UNCHANGED <<mode, otherVars>>

HandleIsStarted ==
    /\ mode = "handle"
    /\ \E h \in EHandles : basic_net_entity_is_started(h)
    /\ UNCHANGED <<mode, otherVars>>

HandleGetSocket ==
    /\ mode = "handle"
    /\ \E h \in EHandles : basic_net_entity_get_socket(h)
    /\ UNCHANGED <<mode, otherVars>>

HandleCompare ==
    /\ mode = "handle"
    /\ \E a \in EHandles : \E b \in EHandles :
           hret' = HRet("compare", a, b, operator_eq(a, b), operator_lt(a, b), "")
    /\ UNCHANGED <<mode, ents, otherVars>>

(* the last shared_ptr to an entity is released: the entity is destroyed *)
EntityDestroy ==
    /\ mode = "handle"
    /\ \E e \in Ents :
           /\ ents[e].alive
           /\ ents' = [ents EXCEPT ![e].alive = FALSE]
    /\ UNCHANGED <<mode, hret, otherVars>>

InitHandle ==
    /\ mode = "handle"
    /\ InitEnts
    /\ InitThreads
    /\ InitWaitQueue
    /\ delim = <<>>
    /\ InitHandlers
    /\ InitNoUdp
    /\ created = {}
    /\ c_started = FALSE
    /\ handlers = {}
    /\ endpoints_empty = FALSE
    /\ res_ops = <<>>
    /\ conn_ops = 0

NextHandle ==
    \/ HandleStart
    \/ HandleStop
    \/ HandleIsStarted
    \/ HandleGetSocket
    \/ HandleCompare
    \/ EntityDestroy

SpecHandle == InitHandle /\ [][NextHandle]_vars

(***************************************************************************)
(* wait_queue (specification 4.1): a FIFO m_data_queue, the flag m_closed, *)
(* a mutex and one condition variable. Every operation below is the part   *)
(* of a call that runs under the mutex; a consumer that finds nothing to   *)
(* return waits on the condition variable and tests again when notified.   *)
(* Producers and the delivery callback push, Consumers pop, the            *)
(* application closes and opens.                                           *)
(***************************************************************************)
Consumers == 1 .. MaxConsumers
NoValue == [id |-> 0, io |-> 0, num |-> 0, starting |-> FALSE]
WqRet(op, c, ok, val) == [op |-> op, c |-> c, ok |-> ok, val |-> val]

nonWqVars == <<mode, delim, handleVars, last_stop, ioCommonVars, tcpIoVars, runtimeVars,
               connVars, udpVars, obsVars>>

(* the waiter notify_one wakes: any one of those waiting, if there is one *)
NotifyOne(cs) ==
    IF \A c \in Consumers : cs[c] # "waiting" THEN {cs}
    ELSE {[cs EXCEPT ![c] = "notified"] : c \in {x \in Consumers : cs[x] = "waiting"}}

NotifyAll(cs) == [c \in Consumers |-> IF cs[c] = "waiting" THEN "notified" ELSE cs[c]]

(* a push that puts the value at the front of the queue (for comparison) *)
wq_push_front(v) ==
    IF m_closed
    THEN /\ wq_ret' = WqRet("push", 0, FALSE, v)
         /\ UNCHANGED <<m_data_queue, pushed, cons>>
    ELSE /\ m_data_queue' = <<v>> \o m_data_queue
         /\ pushed' = Append(pushed, v)
         /\ cons' \in NotifyOne(cons)
         /\ wq_ret' = WqRet("push", 0, TRUE, v)

(* a push that does not look at the closed flag (for comparison) *)
wq_push_ignoring_closed(v) ==
    /\ m_data_queue' = Append(m_data_queue, v)
    /\ pushed' = Append(pushed, v)
    /\ cons' \in NotifyOne(cons)
    /\ wq_ret' = WqRet("push", 0, TRUE, v)

(***************************************************************************)
(* wait_queue::push and emplace_push: fail on a closed queue, else append  *)
(* the value and notify one waiter.                                        *)
(***************************************************************************)
wq_push(v) ==
    IF m_closed
    THEN /\ wq_ret' = WqRet("push", 0, FALSE, v)
         /\ UNCHANGED <<m_data_queue, pushed, cons>>
    ELSE /\ m_data_queue' = Append(m_data_queue, v)
         /\ pushed' = Append(pushed, v)
         /\ cons' \in NotifyOne(cons)
         /\ wq_ret' = WqRet("push", 0, TRUE, v)

(* a wait_and_pop that gives the empty result whenever the queue is empty, *)
(* closed or not (for comparison)                                          *)
wq_pop_not_waiting(c) ==
    IF m_data_queue # <<>>
    THEN /\ m_data_queue' = Tail(m_data_queue)
         /\ popped' = Append(popped, Head(m_data_queue))
         /\ cons' = [cons EXCEPT ![c] = "idle"]
         /\ wq_ret' = WqRet("pop", c, TRUE, Head(m_data_queue))
    ELSE /\ cons' = [cons EXCEPT ![c] = "idle"]
         /\ wq_ret' = WqRet("pop", c, FALSE, NoValue)
         /\ UNCHANGED <<m_data_queue, popped>>

(***************************************************************************)
(* wait_queue::wait_and_pop under the mutex, on entry and after each       *)
(* notification: return the front element if there is one, the empty       *)
(* result if the queue is closed (and empty), else wait.                   *)
(***************************************************************************)
wq_wait_and_pop(c) ==
    IF m_data_queue # <<>>
    THEN /\ m_data_queue' = Tail(m_data_queue)
         /\ popped' = Append(popped, Head(m_data_queue))
         /\ cons' = [cons EXCEPT ![c] = "idle"]
         /\ wq_ret' = WqRet("pop", c, TRUE, Head(m_data_queue))
    ELSE IF m_closed
    THEN /\ cons' = [cons EXCEPT ![c] = "idle"]
         /\ wq_ret' = WqRet("pop", c, FALSE, NoValue)
         /\ UNCHANGED <<m_data_queue, popped>>
    ELSE /\ cons' = [cons EXCEPT ![c] = "waiting"]
         /\ UNCHANGED <<m_data_queue, popped, wq_ret>>

(* wait_queue::try_pop: the front element, or the empty result at once *)
wq_try_pop(c) ==
    IF m_data_queue # <<>>
    THEN /\ m_data_queue' = Tail(m_data_queue)
         /\ popped' = Append(popped, Head(m_data_queue))
         /\ wq_ret' = WqRet("try_pop", c, TRUE, Head(m_data_queue))
    ELSE /\ wq_ret' = WqRet("try_pop", c, FALSE, NoValue)
         /\ UNCHANGED <<m_data_queue, popped>>

(* a producer thread pushes the next value *)
WqPush ==
    /\ mode = "wq"
    /\ n_pushes < MaxPushes
    /\ n_pushes' = n_pushes + 1
    /\ wq_push([id |-> n_pushes + 1, io |-> 0, num |-> 0, starting |-> FALSE])
    /\ UNCHANGED <<nonWqVars, m_closed, popped, n_closes, chg, ios_calls>>

(* a delivery callback that calls io_start on every state change (for      *)
(* comparison)                                                             *)
deliver_always_starting_io(io, num, starting) ==
    /\ ios_calls' = Append(ios_calls, n_pushes + 1)
    /\ wq_push([id |-> n_pushes + 1, io |-> io, num |-> num, starting |-> starting])

(***************************************************************************)
(* start_with_wait_queue: the state change callback it gives to start. The *)
(* entity's IO state changes: started (one handler), then stopped (none),  *)
(* and so on. The callback calls io_start when starting, then pushes.      *)
(***************************************************************************)
start_with_wait_queue(io, num, starting) ==
    /\ ios_calls' = IF starting THEN Append(ios_calls, n_pushes + 1) ELSE ios_calls
    /\ wq_push([id |-> n_pushes + 1, io |-> io, num |-> num, starting |-> starting])

IoStateChange ==
    /\ mode = "wq"
    /\ n_pushes < MaxPushes
    /\ n_pushes' = n_pushes + 1
    /\ LET starting == chg = <<>> \/ ~chg[Len(chg)].starting
           ev == [id |-> n_pushes + 1, io |-> U, num |-> IF starting THEN 1 ELSE 0,
                  starting |-> starting]
       IN /\ chg' = Append(chg, ev)
          /\ start_with_wait_queue(ev.io, ev.num, ev.starting)
    /\ UNCHANGED <<nonWqVars, m_closed, popped, n_closes>>

(* a consumer thread calls wait_and_pop *)
WqWaitAndPop ==
    /\ mode = "wq"
    /\ \E c \in Consumers : cons[c] = "idle" /\ wq_wait_and_pop(c)
    /\ UNCHANGED <<nonWqVars, m_closed, pushed, n_pushes, n_closes, chg, ios_calls>>

(* a notified consumer gets the mutex and tests again *)
WqWake(c) ==
    /\ mode = "wq"
    /\ cons[c] = "notified"
    /\ wq_wait_and_pop(c)
    /\ UNCHANGED <<nonWqVars, m_closed, pushed, n_pushes, n_closes, chg, ios_calls>>

WqTryPop ==
    /\ mode = "wq"
    /\ \E c \in Consumers : cons[c] = "idle" /\ wq_try_pop(c)
    /\ UNCHANGED <<nonWqVars, m_closed, pushed, cons, n_pushes, n_closes, chg, ios_calls>>

(* a close that notifies one waiter only (for comparison) *)
wq_close_notify_one ==
    /\ m_closed' = TRUE
    /\ cons' \in NotifyOne(cons)
    /\ wq_ret' = WqRet("close", 0, TRUE, NoValue)

(* wait_queue::close: set m_closed, notify all waiters *)
wq_close ==
    /\ m_closed' = TRUE
    /\ cons' = NotifyAll(cons)
    /\ wq_ret' = WqRet("close", 0, TRUE, NoValue)

WqClose ==
    /\ mode = "wq"
    /\ m_closed \/ n_closes < MaxCloses
    /\ n_closes' = IF m_closed THEN n_closes ELSE n_closes + 1
    /\ wq_close
    /\ UNCHANGED <<nonWqVars, m_data_queue, pushed, popped, n_pushes, chg, ios_calls>>

(* wait_queue::open: clear m_closed; made only on an empty queue *)
WqOpen ==
    /\ mode = "wq"
    /\ m_data_queue = <<>>
    /\ m_closed
    /\ m_closed' = FALSE
    /\ wq_ret' = WqRet("open", 0, TRUE, NoValue)
    /\ UNCHANGED <<nonWqVars, m_data_queue, pushed, popped, cons, n_pushes, n_closes, chg,
                   ios_calls>>

InitWq ==
    /\ mode = "wq"
    /\ InitEnts
    /\ InitThreads
    /\ InitWaitQueue
    /\ delim = <<>>
    /\ InitHandlers
    /\ InitNoUdp
    /\ created = {}
    /\ c_started = FALSE
    /\ handlers = {}
    /\ endpoints_empty = FALSE
    /\ res_ops = <<>>
    /\ conn_ops = 0

NextWq ==
    \/ WqPush
    \/ IoStateChange
    \/ WqWaitAndPop
    \/ \E c \in Consumers : WqWake(c)
    \/ WqTryPop
    \/ WqClose
    \/ WqOpen

SpecWq == InitWq /\ [][NextWq]_vars

(* a notified thread is scheduled: it gets the mutex in the end *)
SpecWqLive == SpecWq /\ \A c \in Consumers : WF_vars(WqWake(c))

(***************************************************************************)
(* The entities' life cycles: the connector scenario and the UDP entity    *)
(* started and stopped repeatedly.                                         *)
(***************************************************************************)
InitCycle == InitConn \/ InitUdpCycle

NextCycle ==
    \/ TcpConnectorStart
    \/ TcpConnectorStop
    \/ TcpConnectorHandleResolve
    \/ TcpConnectorHandleConnect
    \/ PeerUnplug
    \/ TcpStartIo
    \/ TcpStopIo
    \/ TcpHandleRead
    \/ UdpStart
    \/ UdpStop
    \/ UdpStartIo
    \/ UdpStopIo
    \/ UdpHandleRead

SpecCycle == InitCycle /\ [][NextCycle]_vars

(***************************************************************************)
(* The three scenarios together.                                           *)
(***************************************************************************)
InitAll == InitPair \/ InitConn \/ InitUdp

NextAll ==
    \/ TcpStartIo
    \/ TcpStopIo
    \/ TcpSend
    \/ TcpSendClosure
    \/ TcpHandleRead
    \/ TcpHandleWrite
    \/ TcpConnectorStart
    \/ TcpConnectorStop
    \/ TcpConnectorHandleResolve
    \/ TcpConnectorHandleConnect
    \/ PeerUnplug
    \/ UdpStart
    \/ UdpStop
    \/ UdpStartIo
    \/ UdpStopIo
    \/ UdpSend
    \/ UdpSendClosure
    \/ UdpHandleWrite
    \/ UdpArrive
    \/ UdpHandleRead

SpecAll == InitAll /\ [][NextAll]_vars

(***************************************************************************)
(* C1: every IO handler, TCP or UDP, has at most one asynchronous write    *)
(* outstanding at any time; a send closure processed while a write is in   *)
(* flight (IO started) appends its buffer to the output queue and starts   *)
(* no write; a queued buffer leaves the queue only in the step in which    *)
(* the write before it completes, and it is then the one write started.    *)
(***************************************************************************)
C1_OneWriteOutstanding ==
    /\ [](\A h \in HIds : Len(wr_ops[h]) <= 1)
    /\ [][\A h \in HIds :
            /\ (/\ execq # <<>>
                /\ execq' = Tail(execq)
                /\ Head(execq).h = h
                /\ wr_ops[h] # <<>>
                /\ io_started[h])
               => /\ outq'[h] = Append(outq[h], Head(execq).buf)
                  /\ wr_ops'[h] = wr_ops[h]
            /\ (outq'[h] # outq[h] /\ Len(outq'[h]) <= Len(outq[h]))
               => /\ wr_ops[h] # <<>>
                  /\ outq'[h] = Tail(outq[h])
                  /\ Len(wr_ops'[h]) = 1
                  /\ wr_ops'[h][1].buf = Head(outq[h])
                  /\ wr_ops'[h][1].buf # wr_ops[h][1].buf]_vars

(* a write is outstanding and a later send waits in the output queue *)
C1_Witness ==
    \E h \in HIds : Len(wr_ops[h]) = 1 /\ outq[h] # <<>> /\ io_started[h]

(***************************************************************************)
(* The two TCP scenarios together.                                         *)
(***************************************************************************)
InitTcp == InitPair \/ InitConn

NextTcp ==
    \/ TcpStartIo
    \/ TcpStopIo
    \/ TcpSend
    \/ TcpSendClosure
    \/ TcpHandleRead
    \/ TcpHandleWrite
    \/ TcpConnectorStart
    \/ TcpConnectorStop
    \/ TcpConnectorHandleResolve
    \/ TcpConnectorHandleConnect
    \/ PeerUnplug

SpecTcp == InitTcp /\ [][NextTcp]_vars

(***************************************************************************)
(* C2: the buffers handed to the socket of a handler are, in order, the    *)
(* buffers of the send closures the executor processed for it (those not   *)
(* dropped), each at most once: what was written is always a prefix of     *)
(* what was processed, and the rest waits in the output queue in the same  *)
(* order.                                                                  *)
(***************************************************************************)
C2_WriteOrder ==
    \A h \in HIds :
        /\ IsPrefix(written[h], accepted[h])
        /\ accepted[h] = written[h] \o outq[h]
        /\ wr_ops[h] # <<>> => wr_ops[h][1].buf = written[h][Len(written[h])]

(* two buffers were queued behind a write; the first of them is now being
   written and the second still waits *)
C2_Witness ==
    \E h \in HIds :
        /\ Len(written[h]) >= 2
        /\ outq[h] # <<>>
        /\ wr_ops[h] # <<>>

(***************************************************************************)
(* C3: in the handler pair, with no socket error, the messages delivered   *)
(* to the receiver's message handler are always a prefix of the messages   *)
(* the peer sent (those its started handler accepted), byte for byte and   *)
(* in order, in header framing and in delimiter framing; once nothing is   *)
(* left in flight (unprocessed closures, queued or outstanding writes,     *)
(* unread bytes) the two sequences are equal.                              *)
(***************************************************************************)
C3_DeliveredEqualsSent ==
    LET sent == [k \in DOMAIN accepted[Sender] |-> accepted[Sender][k].data]
        rcvr == Peer(Sender)
        inFlight == \/ execq # <<>>
                    \/ outq[Sender] # <<>>
                    \/ wr_ops[Sender] # <<>>
                    \/ wire[rcvr] # <<>>
                    \/ (delimiter[rcvr] # <<>> /\ byte_vec[rcvr] # <<>>)
    IN mode = "pair" =>
          /\ IsPrefix(delivered[rcvr], sent)
          /\ ~inFlight => delivered[rcvr] = sent

(* every message sent has arrived: MaxSends of them, one with a body and
   one without *)
C3_Witness ==
    LET rcvr == Peer(Sender) IN
    /\ mode = "pair"
    /\ Len(delivered[rcvr]) = MaxSends
    /\ Len(accepted[Sender]) = MaxSends
    /\ execq = <<>> /\ wr_ops[Sender] = <<>> /\ wire[rcvr] = <<>>
    /\ \E k \in DOMAIN delivered[rcvr] : Len(delivered[rcvr][k]) > HdrSize
    /\ \E k \in DOMAIN delivered[rcvr] : Len(delivered[rcvr][k]) = HdrSize

(***************************************************************************)
(* C6: when a read of a TCP IO handler (header or delimiter framing)       *)
(* completes with a socket error, or                                       *)
(* the message handler returns false for a delivered message, the handler  *)
(* calls its parent's notifier once, with that error (or                   *)
(* message_handler_terminated) and a reference to itself, and starts no    *)
(* read; and from then on that handler has no read outstanding and         *)
(* delivers no message.                                                    *)
(***************************************************************************)
C6_ReadFailureNotifies ==
    [][\A h \in created :
          /\ \A i \in DOMAIN rd_ops[h] : \A res \in ReadResults(h, i) :
                LET failed == res # "ok"
                    terminated == res = "ok" /\ delivered'[h] # delivered[h]
                    handled == IF rd_ops[h][i].until
                               THEN \E k \in ReadUntilSizes(h, res) :
                                        tcp_io_handle_read_until(h, i, res, k, FALSE)
                               ELSE tcp_io_handle_read(h, i, res, FALSE)
                IN (handled /\ (failed \/ terminated))
                   => /\ notified' = Append(notified,
                                            [err |-> IF failed THEN res
                                                     ELSE message_handler_terminated,
                                             h |-> h])
                      /\ rd_ops'[h] = <<>>
          /\ (/\ rd_ops[h] = <<>>
              /\ \E k \in DOMAIN notified :
                    /\ notified[k].h = h
                    /\ notified[k].err # tcp_io_handler_stopped)
             => /\ rd_ops'[h] = <<>>
                /\ delivered'[h] = delivered[h]]_vars

(* both cases have happened: a read that failed with a socket error, and a
   message handler that returned false for a message it was given *)
C6_WitnessError ==
    \E k \in DOMAIN notified :
        /\ notified[k].err \in {eof_error, operation_aborted}
        /\ rd_ops[notified[k].h] = <<>>

C6_WitnessTerminated ==
    \E k \in DOMAIN notified :
        /\ notified[k].err = message_handler_terminated
        /\ delivered[notified[k].h] # <<>>
        /\ wire[notified[k].h] # <<>>

(***************************************************************************)
(* C4: on any IO handler, TCP or UDP, only the first start_io call can     *)
(* take effect: every start_io call made after an earlier one on the same  *)
(* handler returns false and changes nothing (started flag, reads, framing *)
(* parameters, default destination, notifications).                        *)
(***************************************************************************)
C4_OnlyFirstStartIo ==
    [][\A h \in HIds :
          (/\ sio_calls[h] > 0
           /\ \/ tcp_io_start_io(h)
              \/ /\ mode = "udp"
                 /\ h = U
                 /\ \E reading \in BOOLEAN : \E endp \in {NoEndp} \cup DefaultEndps :
                        udp_start_io(reading, endp))
          => /\ ret'.val = FALSE
             /\ UNCHANGED <<io_started, rd_ops, read_size, delimiter, hdr_processed, byte_vec,
                            max_size, default_dest, notified, cbLog>>]_vars

(* a start_io call has been made on a handler on which an earlier call had
   already been made *)
C4_Witness ==
    \E h \in HIds : ret.op = "start_io" /\ ret.h = h /\ sio_calls[h] >= 2

(***************************************************************************)
(* C5: stop() is idempotent for a TCP connector and for a UDP entity: a    *)
(* stop() call that directly follows another stop() call on the same       *)
(* entity invokes no callback and changes no state, so N calls in a row    *)
(* leave the callbacks and the state that one call leaves.                 *)
(***************************************************************************)
C5_StopIdempotent ==
    [][(ret.op = "stop" /\ (TcpConnectorStop \/ UdpStop))
       => UNCHANGED <<scenVars, ioCommonVars, tcpIoVars, runtimeVars, connVars, udpVars,
                      notified, cbLog, sio_calls, accepted, written, delivered,
                      n_sends, n_starts>>]_vars

(* stop() has been called twice in a row on an entity that was started and
   whose first stop() fired the final callback *)
C5_Witness ==
    /\ ret.op = "stop"
    /\ ret.again
    /\ cbLog # <<>>
    /\ cbLog[Len(cbLog)].err \in {tcp_connector_stopped, udp_entity_stopped}

(***************************************************************************)
(* C7: TCP connector reconnect is continuous: a started connector whose    *)
(* connection was torn down, or whose connect attempt failed, stays        *)
(* started and begins a new attempt by itself.  Stated on states: a        *)
(* started connector is never idle; it holds a live handler, or a resolve  *)
(* or connect is outstanding, or its reconnect timer is armed.             *)
(***************************************************************************)
C7_ContinuousReconnect ==
    (mode = "conn" /\ c_started)
    => \/ handlers # {}
       \/ conn_ops > 0
       \/ res_ops # <<>>
       \/ TimerArmed

(***************************************************************************)
(* C8: after the peer of a started connector was unplugged N times (and    *)
(* the application neither stopped the connector nor a handler), once the  *)
(* teardowns have been processed the connector has fired exactly N stopCb, *)
(* one for each unplugged connection, and it is connected or connecting    *)
(* again.                                                                  *)
(***************************************************************************)
C8_OneStopCbPerUnplug ==
    LET unplugged == {h \in created : eof[h]}
        stops == {k \in DOMAIN cbLog : cbLog[k].kind = "stop"}
        byApp == \E k \in DOMAIN notified : notified[k].err = tcp_io_handler_stopped
    IN (/\ mode = "conn"
        /\ c_started
        /\ n_starts = 1
        /\ ~byApp
        /\ unplugged # {}
        /\ unplugged \cap handlers = {})
       => /\ Cardinality(stops) = Cardinality(unplugged)
          /\ \A h \in unplugged : \E k \in stops : cbLog[k].h = h
          /\ \/ handlers # {}
             \/ conn_ops > 0
             \/ res_ops # <<>>
             \/ TimerArmed

(***************************************************************************)
(* C9: stop() on a started connector causes exactly one final stopCb, with *)
(* tcp_connector_stopped, and that is the last stopCb the connector fires  *)
(* until it is started again: in the step of a stop() call that finds the  *)
(* connector started the last callback fired is that one, and while the    *)
(* connector stays stopped no further stopCb is fired.                     *)
(***************************************************************************)
C9_FinalStopCbIsLast ==
    [][/\ (TcpConnectorStop /\ c_started)
          => /\ Len(cbLog') > Len(cbLog)
             /\ cbLog'[Len(cbLog')].err = tcp_connector_stopped
             /\ \A k \in (Len(cbLog) + 1) .. (Len(cbLog') - 1) :
                    cbLog'[k].err # tcp_connector_stopped
       /\ (/\ ~c_started
           /\ ~c_started'
           /\ \E k \in DOMAIN cbLog : cbLog[k].err = tcp_connector_stopped)
          => \A k \in (Len(cbLog) + 1) .. Len(cbLog') : cbLog'[k].kind # "stop"]_vars

(***************************************************************************)
(* C10: while a connector is stopped after stop(), until start() is called *)
(* again, no connect attempt is begun, no IO handler is created and no     *)
(* ioReadyCb is invoked, whatever completion runs.                         *)
(***************************************************************************)
C10_NothingAfterStop ==
    [][(/\ mode = "conn"
        /\ ~c_started
        /\ ~c_started'
        /\ \E k \in DOMAIN cbLog : cbLog[k].err = tcp_connector_stopped)
       => /\ conn_ops' <= conn_ops
          /\ created' = created
          /\ handlers' \subseteq handlers
          /\ \A k \in (Len(cbLog) + 1) .. Len(cbLog') : cbLog'[k].kind # "start"]_vars

(***************************************************************************)
(* C11: a TCP connector is in at most one of the states resolving,         *)
(* connecting, connected, waiting to reconnect, stopped: it never has a    *)
(* connect attempt outstanding while it holds a live IO handler, never two *)
(* connect attempts or a resolve and a connect outstanding together, never *)
(* more than one IO handler, and when it is stopped it is not resolving,   *)
(* connecting or connected.                                                *)
(***************************************************************************)
C11_OneStateAtATime ==
    LET resolving == \E i \in DOMAIN res_ops : res_ops[i].st = "pending"
        connecting == conn_ops > 0
        connected == handlers # {}
    IN mode = "conn"
       => /\ conn_ops <= 1
          /\ Cardinality(handlers) <= 1
          /\ ~(connecting /\ connected)
          /\ ~(resolving /\ connecting)
          /\ ~(resolving /\ connected)
          /\ ~c_started => ~(resolving \/ connecting \/ connected)

(***************************************************************************)
(* C12: when the resolve of a started TCP connector fails, the connector   *)
(* fires stopCb with the resolver's error, is no longer started, and       *)
(* begins no connect attempt (and makes no IO handler).                    *)
(***************************************************************************)
C12_ResolveFailureStops ==
    [][\A i \in DOMAIN res_ops : \A res \in ResolveResults(i) :
          (c_started /\ res # "ok" /\ tcp_connector_handle_resolve(i, res))
          => /\ Len(cbLog') > Len(cbLog)
             /\ cbLog'[Len(cbLog) + 1].kind = "stop"
             /\ cbLog'[Len(cbLog) + 1].err = res
             /\ ~c_started'
             /\ conn_ops' = conn_ops
             /\ handlers' = {}]_vars

(* a resolve has failed with the resolver's own error: the callback got it,
   the connector is stopped and nothing is being connected *)
C12_Witness ==
    /\ mode = "conn"
    /\ ~c_started
    /\ conn_ops = 0
    /\ created = {}
    /\ \E k \in DOMAIN cbLog : cbLog[k].kind = "stop" /\ cbLog[k].err = host_not_found

(***************************************************************************)
(* C13: an entity can be cycled start, stop, start, ...: stop() on a       *)
(* started UDP entity or TCP connector leaves it not started, and a        *)
(* start() on a stopped entity takes effect again: the entity is started,  *)
(* the UDP socket is opened (bound) again and the IO-ready callback is     *)
(* delivered, or the connector begins a resolve or a connect again.  Only  *)
(* an error of the environment (the address is in use) may make the UDP    *)
(* start fail.                                                             *)
(***************************************************************************)
C13_StartStopCycle ==
    [][/\ ((UdpStop \/ TcpConnectorStop) /\ c_started) => ~c_started'
       /\ (UdpStart /\ ~c_started)
          => \/ /\ c_started'
                /\ sock'[U] = "open"
                /\ cbLog' = Append(cbLog, [kind |-> "start", err |-> "", h |-> U, n |-> 1])
             \/ \E k \in (Len(cbLog) + 1) .. Len(cbLog') : cbLog'[k].err = address_in_use
       /\ (TcpConnectorStart /\ ~c_started)
          => /\ c_started'
             /\ \/ conn_ops' = conn_ops + 1
                \/ Len(res_ops') = Len(res_ops) + 1]_vars

(* an entity has been started, stopped and started again *)
C13_Witness ==
    /\ n_starts >= 2
    /\ ret.op = "start"
    /\ \E k \in DOMAIN cbLog : cbLog[k].err \in {udp_entity_stopped, tcp_connector_stopped}

(***************************************************************************)
(* C14: every operation on an entity handle upgrades on use. start() and   *)
(* stop() return true exactly when the handle's target entity is alive at  *)
(* the call; on an expired or default-constructed handle they change no    *)
(* entity state, and is_started() and get_socket() fail with               *)
(* weak_ptr_expired, while on a live target they do not fail and           *)
(* is_started() gives the entity's started flag.                           *)
(***************************************************************************)
C14_UpgradeOnUse ==
    [][\A h \in EHandles :
          /\ (mode = "handle" /\ (basic_net_entity_start(h) \/ basic_net_entity_stop(h)))
                => /\ hret'.val = is_valid(h)
                   /\ hret'.thrown = ""
                   /\ ~is_valid(h) => ents' = ents
                   /\ is_valid(h) => ents'[h].calls = ents[h].calls + 1
          /\ (mode = "handle" /\ (basic_net_entity_is_started(h) \/ basic_net_entity_get_socket(h)))
                => /\ ents' = ents
                   /\ (hret'.thrown = weak_ptr_expired) = ~is_valid(h)
                   /\ is_valid(h) => hret'.thrown = ""
                   /\ (is_valid(h) /\ hret'.op = "is_started")
                         => hret'.val = ents[h].started
      ]_vars

(* start() was called on a handle whose entity had been started and then   *)
(* destroyed: it returned false and the entity's state is as it was left   *)
C14_Witness ==
    /\ mode = "handle"
    /\ hret.op = "start"
    /\ hret.a # NoEntity
    /\ ~ents[hret.a].alive
    /\ ents[hret.a].calls = 1
    /\ hret.val = FALSE

(***************************************************************************)
(* C15: for any two entity handles a and b, a == b holds iff both are      *)
(* invalid or both are valid and refer to the same entity; a < b holds iff *)
(* a is invalid and b is valid, or both are valid and a's target orders    *)
(* before b's. So all invalid handles are equal to each other and less     *)
(* than every valid handle, and exactly one of a < b, b < a, a == b holds. *)
(***************************************************************************)
C15_HandleOrdering ==
    \A a \in EHandles : \A b \in EHandles :
        mode = "handle" =>
          LET va == a # NoEntity /\ ents[a].alive
              vb == b # NoEntity /\ ents[b].alive
              eq == operator_eq(a, b)
              lt == operator_lt(a, b)
              gt == operator_lt(b, a)
          IN /\ eq = ((~va /\ ~vb) \/ (va /\ vb /\ a = b))
             /\ lt = ((~va /\ vb) \/ (va /\ vb /\ a < b))
             /\ (~va /\ ~vb) => eq
             /\ (~va /\ vb) => lt
             /\ (eq /\ ~lt /\ ~gt) \/ (~eq /\ lt /\ ~gt) \/ (~eq /\ ~lt /\ gt)

(* an expired handle was compared with a default-constructed one and with  *)
(* nothing else alive to tell them apart: they are equal, neither is less  *)
C15_Witness ==
    /\ mode = "handle"
    /\ hret.op = "compare"
    /\ hret.a # NoEntity
    /\ hret.b = NoEntity
    /\ ~ents[hret.a].alive
    /\ hret.val
    /\ ~hret.lt
    /\ operator_eq(hret.a, hret.b)

(***************************************************************************)
(* C16: socket objects and IO-handler state are touched only on the        *)
(* executor thread. When stop() or stop_io() is called from a thread other *)
(* than the executor thread, the closing of the socket, the change of the  *)
(* started flags and the invocation of the callbacks are performed on the  *)
(* executor thread, by posting, never directly on the calling thread.      *)
(***************************************************************************)
C16_StopOnExecutorThread ==
    mode \in UdpModes =>
        (last_stop.op \in {"stop", "stop_io"} => last_stop.ran_on = Executor)

(* stop() of a started UDP entity was called from an application thread    *)
(* and has closed the socket and reported udp_entity_stopped               *)
C16_Witness ==
    /\ mode = "udp_cycle"
    /\ last_stop.op = "stop"
    /\ last_stop.caller = AppThread
    /\ ret.op = "stop"
    /\ ~c_started
    /\ sock[U] = "closed"
    /\ cbLog # <<>>
    /\ cbLog[Len(cbLog)].err = udp_entity_stopped

(***************************************************************************)
(* C17: a successful start() of a UDP entity invokes the IO-ready state    *)
(* change callback exactly once, with (handle to this entity, count 1,     *)
(* starting = true), and returns true; start() on an already started UDP   *)
(* entity returns false and invokes no callback.                           *)
(***************************************************************************)
C17_UdpStartSuccess ==
    [][\A res \in OpenResults :
          (UdpStart /\ udp_start(res)) =>
              /\ (~c_started /\ res = "ok") =>
                    /\ ret' = Ret("start", U, TRUE)
                    /\ c_started'
                    /\ cbLog' = Append(cbLog, [kind |-> "start", err |-> "", h |-> U, n |-> 1])
              /\ c_started =>
                    /\ ret' = Ret("start", U, FALSE)
                    /\ cbLog' = cbLog
                    /\ c_started'
      ]_vars

(* start() was called on an entity that an earlier start() had started: it *)
(* returned false, and the one IO-ready callback is the only callback      *)
C17_Witness ==
    /\ mode = "udp_cycle"
    /\ ret.op = "start"
    /\ ~ret.val
    /\ c_started
    /\ cbLog = <<[kind |-> "start", err |-> "", h |-> U, n |-> 1]>>

(***************************************************************************)
(* C18: when opening or binding the UDP socket fails in start(), errCb is  *)
(* invoked with the system error, the IO-ready callback is not invoked,    *)
(* start() returns false, and the entity ends in the Stopped state         *)
(* (is_started is false, so that a later start() can be attempted).        *)
(***************************************************************************)
C18_UdpStartFailure ==
    [][\A res \in OpenResults :
          (UdpStart /\ udp_start(res) /\ ~c_started /\ res # "ok") =>
              /\ ret' = Ret("start", U, FALSE)
              /\ ~c_started'
              /\ Len(cbLog') > Len(cbLog)
              /\ cbLog'[Len(cbLog) + 1] = [kind |-> "err", err |-> res, h |-> U, n |-> 0]
              /\ \A i \in (Len(cbLog) + 1) .. Len(cbLog') : cbLog'[i].kind # "start"
      ]_vars

(* a start() failed to bind (the address is in use): the error was         *)
(* reported, the entity is not started and the socket is not open          *)
C18_Witness ==
    /\ mode = "udp_cycle"
    /\ ret.op = "start"
    /\ ~ret.val
    /\ ~c_started
    /\ \E i \in DOMAIN cbLog : cbLog[i].kind = "err" /\ cbLog[i].err = address_in_use
    /\ cbLog[Len(cbLog)].err = udp_entity_stopped

(***************************************************************************)
(* C19: stop() on a started UDP entity closes the entity's socket and      *)
(* reports udp_entity_stopped through the entity's callback, whether or    *)
(* not start_io had been called on it; after stop() returns the socket is  *)
(* closed.                                                                 *)
(***************************************************************************)
C19_UdpStopClosesSocket ==
    [][(UdpStop /\ c_started) =>
          /\ sock'[U] = "closed"
          /\ ~c_started'
          /\ Len(cbLog') > Len(cbLog)
          /\ cbLog'[Len(cbLog')] = [kind |-> "err", err |-> udp_entity_stopped, h |-> U, n |-> 0]
      ]_vars

(* stop() has returned true on a started entity whose IO was not started:  *)
(* udp_entity_stopped was reported and the socket is still open            *)
C19_Witness ==
    /\ mode = "udp_cycle"
    /\ ret.op = "stop"
    /\ ret.val
    /\ ~c_started
    /\ ~io_started[U]
    /\ cbLog[Len(cbLog)].err = udp_entity_stopped
    /\ \A i \in DOMAIN cbLog : cbLog[i].err # udp_io_handler_stopped
    /\ sock[U] = "open"

(***************************************************************************)
(* C20: a UDP send uses the endpoint passed to send when one is given,     *)
(* otherwise the default destination set at start_io; when no endpoint is  *)
(* passed and no default destination was ever set, the send is rejected:   *)
(* no datagram is written to the socket. Stated on every step that hands a *)
(* buffer to the socket (a send closure or a write completion that takes   *)
(* the next queued buffer): the write just started carries that buffer,    *)
(* its destination is the buffer's own endpoint, else the default          *)
(* destination, and it is a destination.                                   *)
(***************************************************************************)
C20_UdpSendDestination ==
    [][(mode = "udp" /\ Len(written'[U]) > Len(written[U])) =>
          LET buf == written'[U][Len(written'[U])]
              op == wr_ops'[U][Len(wr_ops'[U])]
          IN /\ wr_ops'[U] # <<>>
             /\ op.buf = buf
             /\ buf.endp # NoEndp => op.dest = buf.endp
             /\ buf.endp = NoEndp => op.dest = default_dest
             /\ op.dest # NoEndp
      ]_vars

(* a buffer sent without an endpoint is in a write on the socket although  *)
(* no default destination was ever set                                     *)
C20_Witness ==
    /\ mode = "udp"
    /\ default_dest = NoEndp
    /\ \E i \in DOMAIN wr_ops[U] :
           wr_ops[U][i].buf.endp = NoEndp /\ wr_ops[U][i].dest = NoEndp

(***************************************************************************)
(* C21: when a UDP message handler returns false for a datagram, the       *)
(* entity is stopped: message_handler_terminated is reported through       *)
(* errCb, no further receive is started, no later datagram is delivered to *)
(* the message handler, and is_started and is_io_started are both false    *)
(* afterwards.                                                             *)
(***************************************************************************)
C21_UdpHandlerFalseStops ==
    [][/\ \A i \in DOMAIN rd_ops[U] :
              (mode = "udp" /\ wire[U] # <<>> /\ udp_handle_read(i, "ok", FALSE)) =>
                  /\ Len(cbLog') > Len(cbLog)
                  /\ cbLog'[Len(cbLog) + 1] =
                         [kind |-> "err", err |-> message_handler_terminated, h |-> U, n |-> 0]
                  /\ \A j \in DOMAIN rd_ops'[U] : rd_ops'[U][j].st # "pending"
                  /\ ~c_started'
                  /\ ~io_started'[U]
       /\ (mode = "udp" /\ \E k \in DOMAIN cbLog : cbLog[k].err = message_handler_terminated)
              => delivered'[U] = delivered[U]
      ]_vars

(* the message handler has returned false and the error was reported, yet  *)
(* the handler's IO is still started                                       *)
C21_Witness ==
    /\ mode = "udp"
    /\ cbLog # <<>>
    /\ cbLog[Len(cbLog)].err = message_handler_terminated
    /\ delivered[U] # <<>>
    /\ ~c_started
    /\ io_started[U]

(***************************************************************************)
(* C22: for a UDP entity (or TCP connector) used with future delivery,     *)
(* over the whole lifetime of the entity there is only a single IO-start   *)
(* state change and a single IO-stop state change, so the start promise is *)
(* fulfilled exactly once and the stop promise at most once; neither       *)
(* promise is ever set a second time. Future delivery calls start once,    *)
(* with the promise-setting callback.                                      *)
(***************************************************************************)
C22_PromisesSetOnce ==
    (mode = "udp" /\ n_starts <= 1) =>
        /\ fut_io_state_chg_cb(cbLog, TRUE) <= 1
        /\ fut_io_state_chg_cb(cbLog, FALSE) <= 1
        /\ c_started => fut_io_state_chg_cb(cbLog, TRUE) = 1

(* the entity was started once and its IO was started and stopped twice:   *)
(* the state change callback ran a second time with starting = false       *)
C22_Witness ==
    /\ mode = "udp"
    /\ n_starts = 1
    /\ sio_calls[U] = 2
    /\ fut_io_state_chg_cb(cbLog, TRUE) = 1
    /\ fut_io_state_chg_cb(cbLog, FALSE) = 2

(***************************************************************************)
(* C23 as stated: with wait-queue delivery, every IO state change of the   *)
(* entity results in exactly one event (io handle, handler count,          *)
(* starting) pushed to the caller's wait queue, in the order the state     *)
(* changes occurred; io_start is invoked for the starting = true changes   *)
(* and for no other.                                                       *)
(***************************************************************************)
FromEntity(v) == v.io # 0

C23_EveryChangePushed ==
    mode = "wq" =>
        /\ SelectSeq(pushed, FromEntity) = chg
        /\ Len(ios_calls) = Cardinality({i \in DOMAIN chg : chg[i].starting})
        /\ \A k \in DOMAIN ios_calls : \E i \in DOMAIN chg :
               chg[i].id = ios_calls[k] /\ chg[i].starting

(***************************************************************************)
(* C23 as amended: every IO state change that occurs while the wait queue  *)
(* is open results in exactly one event pushed to the queue, behind the    *)
(* events pushed before it; a state change that occurs while the queue is  *)
(* closed pushes nothing. In both cases io_start has been invoked for a    *)
(* starting = true change by the time the callback returns, and is not     *)
(* invoked for a starting = false change.                                  *)
(***************************************************************************)
C23_ChangePushedWhileOpen ==
    [][IoStateChange =>
          LET ev == chg'[Len(chg')] IN
          /\ ~m_closed => /\ pushed' = Append(pushed, ev)
                          /\ m_data_queue' = Append(m_data_queue, ev)
          /\ m_closed => /\ pushed' = pushed
                         /\ m_data_queue' = m_data_queue
          /\ ios_calls' = IF ev.starting THEN Append(ios_calls, ev.id) ELSE ios_calls
      ]_vars

(* a start and a stop of IO were delivered through the open queue: io_start *)
(* was called for the first only, and a consumer has popped the start event *)
C23_Witness ==
    /\ mode = "wq"
    /\ Len(chg) = 2
    /\ SelectSeq(pushed, FromEntity) = chg
    /\ ios_calls = <<chg[1].id>>
    /\ popped # <<>>
    /\ popped[1] = chg[1]

(***************************************************************************)
(* C24: for every acceptor callback, the connection count passed to        *)
(* ioReadyCb or stopCb equals the size of the acceptor's live-handler set  *)
(* after the corresponding insert or remove has taken effect: between 1    *)
(* and N on ioReadyCb and between 0 and N on stopCb. Stated on every step: *)
(* the j-th callback the step invokes carries the size of the handler set  *)
(* with that callback's handler inserted (ioReadyCb), or with the handlers *)
(* of the step's callbacks up to the j-th removed (stopCb), and the last   *)
(* one carries the size of the set the step leaves.                        *)
(***************************************************************************)
C24_CountIsHandlerSetSize ==
    [][mode = "acc" =>
          \A j \in 1 .. (Len(cbLog') - Len(cbLog)) :
              LET e == cbLog'[Len(cbLog) + j]
                  gone == {cbLog'[Len(cbLog) + k].h : k \in 1 .. j}
              IN /\ e.kind = "start" =>
                       /\ e.n = Cardinality(handlers \cup {e.h})
                       /\ e.n \in 1 .. MaxHandlers
                       /\ e.h \in handlers'
                 /\ e.kind = "stop" =>
                       /\ e.n = Cardinality(handlers \ gone)
                       /\ e.n \in 0 .. MaxHandlers
                       /\ e.h \notin handlers'
                 /\ j = Len(cbLog') - Len(cbLog) => e.n = Cardinality(handlers')
      ]_vars

(* two connections were accepted (counts 1 and 2) and one of them went     *)
(* down: its stopCb carried the count 1, the size of the set that is left  *)
C24_Witness ==
    /\ mode = "acc"
    /\ Len(cbLog) >= 3
    /\ cbLog[1].kind = "start" /\ cbLog[1].n = 1
    /\ cbLog[2].kind = "start" /\ cbLog[2].n = 2
    /\ cbLog[3].kind = "stop" /\ cbLog[3].n = 1
    /\ Cardinality(handlers) = 1

(***************************************************************************)
(* C25: for a wait_queue with any number of producers and consumers and    *)
(* any interleaving, the sequence of values returned by successful pops    *)
(* (in the order they occur under the queue's lock) is at every moment a   *)
(* prefix of the sequence of values successfully pushed, and the queue     *)
(* holds exactly the rest: no value is lost, duplicated, delivered to two  *)
(* consumers, or reordered.                                                *)
(***************************************************************************)
C25_PopsArePrefixOfPushes ==
    mode = "wq" =>
        /\ Len(popped) <= Len(pushed)
        /\ popped = SubSeq(pushed, 1, Len(popped))
        /\ m_data_queue = SubSeq(pushed, Len(popped) + 1, Len(pushed))
        /\ \A i \in DOMAIN popped : \A j \in DOMAIN popped : popped[i] = popped[j] => i = j

(* every push was made, some by a producer and some by the delivery        *)
(* callback, and all the values were popped, the last one just now         *)
C25_Witness ==
    /\ mode = "wq"
    /\ Len(pushed) = MaxPushes
    /\ popped = pushed
    /\ \E i \in DOMAIN pushed : pushed[i].io # 0
    /\ \E i \in DOMAIN pushed : pushed[i].io = 0
    /\ wq_ret.op = "pop"
    /\ wq_ret.val = pushed[MaxPushes]

C27_PushOnClosedFails ==
    [][(WqPush \/ IoStateChange) =>
          /\ wq_ret'.op = "push"
          /\ m_closed => /\ ~wq_ret'.ok
                         /\ m_data_queue' = m_data_queue
                         /\ pushed' = pushed
                         /\ m_closed'
          /\ ~m_closed => /\ wq_ret'.ok
                          /\ m_data_queue' = Append(m_data_queue, wq_ret'.val)
      ]_vars

(* the queue was closed, opened and closed again; a push made then has     *)
(* failed, after an earlier push had succeeded                             *)
C27_Witness ==
    /\ mode = "wq"
    /\ m_closed
    /\ n_closes = 2
    /\ wq_ret.op = "push"
    /\ ~wq_ret.ok
    /\ pushed # <<>>
    /\ Len(pushed) < n_pushes

(***************************************************************************)
(* C28 as stated: close() on a wait_queue wakes all waiters: every         *)
(* consumer blocked in pop when close() is called eventually returns (with *)
(* a remaining element or with the closed-empty result).                   *)
(***************************************************************************)
C28_BlockedConsumersReturn ==
    \A c \in Consumers :
        (mode = "wq" /\ m_closed /\ cons[c] # "idle") ~> (cons[c] = "idle")

(***************************************************************************)
(* C28 as amended: close() on a wait_queue wakes all waiters: every        *)
(* consumer blocked in pop when close() is called eventually returns       *)
(* unless the queue is opened again before that consumer has run; no       *)
(* consumer stays blocked forever on a closed queue.                       *)
(***************************************************************************)
C28_BlockedConsumersReturnOrReopened ==
    \A c \in Consumers :
        (mode = "wq" /\ m_closed /\ cons[c] # "idle") ~> (cons[c] = "idle" \/ ~m_closed)

(* both consumers were waiting when close() was called; one has returned   *)
(* with the closed-empty result, the other is notified and has yet to run  *)
C28_Witness ==
    /\ mode = "wq"
    /\ m_closed
    /\ m_data_queue = <<>>
    /\ wq_ret.op = "pop"
    /\ ~wq_ret.ok
    /\ \E c \in Consumers : cons[c] = "notified"
    /\ \E c \in Consumers : cons[c] = "idle" /\ wq_ret.c = c

(***************************************************************************)
(* The handler pair under a running executor: the event loop runs every    *)
(* closure posted to it and the completion handler of every finished       *)
(* asynchronous operation.                                                 *)
(***************************************************************************)
SpecPairLive ==
    SpecPair /\ WF_vars(TcpSendClosure) /\ WF_vars(TcpHandleWrite) /\ WF_vars(TcpHandleRead)

(* the send calls whose buffers are in a sequence of buffers or of writes *)
BufIds(s) == {s[i].id : i \in DOMAIN s}
WriteIds(ops) == {ops[i].buf.id : i \in DOMAIN ops}

(* the sending side: every buffer that send() handed to a handler whose IO *)
(* is started is eventually written to the socket (its write was started   *)
(* and has completed), and a write in flight ends with the output queue    *)
(* drained and the write flag cleared                                      *)
C29_AcceptedIsWritten ==
    /\ \A k \in 1 .. MaxSends :
           (k \in BufIds(accepted[Sender]))
               ~> (k \in BufIds(written[Sender]) /\ k \notin WriteIds(wr_ops[Sender]))
    /\ []<>(~write_in_progress[Sender] /\ outq[Sender] = <<>>)

(* the peer's IO is going on: started, and nothing has ended it (no error  *)
(* and no message handler that returned false was reported to the entity)  *)
PeerReading ==
    /\ io_started[Peer(Sender)]
    /\ \A i \in DOMAIN notified : notified[i].h # Peer(Sender)

(* the receiving side: the peer never counts more messages than were sent, *)
(* and while its IO goes on it counts each of them in the end              *)
C29_PeerCountsAll ==
    /\ [](Len(delivered[Peer(Sender)]) <= Len(accepted[Sender]))
    /\ []<>(PeerReading => Len(delivered[Peer(Sender)]) = Len(accepted[Sender]))

(* C29: no dropped messages and no deadlock. With IO started and no socket *)
(* error every buffer passed to send() is eventually written, the output   *)
(* queue drains and the write flag returns to false, so that the receiving *)
(* side counts exactly the messages that were sent.                        *)
C29_NoDroppedMessages == C29_AcceptedIsWritten /\ C29_PeerCountsAll

C29_Witness ==
    /\ Len(accepted[Sender]) >= 2
    /\ execq = <<>>
    /\ wr_ops[Sender] = <<>>
    /\ outq[Sender] = <<>>
    /\ ~write_in_progress[Sender]
    /\ BufIds(written[Sender]) = BufIds(accepted[Sender])
    /\ PeerReading
    /\ Len(delivered[Peer(Sender)]) = Len(accepted[Sender])

(* C30: a send on a handler whose IO is not started when the closure that  *)
(* send() posted runs (start_io never called, or the handler stopped) is   *)
(* dropped: no write is started, the output queue, the write flag and the  *)
(* records of accepted and written buffers stay as they are, and no        *)
(* callback is invoked.                                                    *)
C30_SendWithoutIoDropped ==
    [][(\/ TcpSendClosure /\ ~io_started[Head(execq).h]
        \/ UdpSendClosure /\ ~io_started[U])
       => UNCHANGED <<wr_ops, outq, write_in_progress, accepted, written, notified, cbLog>>]_vars

(* the first send was accepted while IO was started, the handler stopped,  *)
(* and the second send was dropped                                         *)
C30_Witness ==
    /\ mode = "udp"
    /\ ~io_started[U]
    /\ n_sends = 2
    /\ execq = <<>>
    /\ BufIds(accepted[U]) = {1}

(***************************************************************************)
(* Header and callback framing: the reads of one message.                  *)
(***************************************************************************)
(* handler h has one read outstanding, made by start_read *)
HdrReadPending(h) == Len(rd_ops[h]) = 1 /\ ~rd_ops[h][1].until

(* this step is the successful completion of that read: it took the bytes  *)
(* off the stream                                                          *)
HdrReadDone(h) == HdrReadPending(h) /\ TcpHandleRead /\ wire'[h] # wire[h]

(* C31: in header and callback framing the buffer collects the reads made  *)
(* since the last reset in order (each read fills exactly the tail of the  *)
(* buffer behind the bytes read before it), the message delivered is the   *)
(* concatenation of all of them, and after a delivery the buffer is reset  *)
(* to the header size and the next read asks for exactly that many bytes.  *)
C31_DeliveredIsConcatenationOfReads ==
    /\ [](\A h \in HIds : HdrReadPending(h) =>
            /\ rd_ops[h][1].off + rd_ops[h][1].len = Len(byte_vec[h])
            /\ rd_ops[h][1].off = 0 => rd_ops[h][1].len = read_size[h])
    /\ [][\A h \in HIds : HdrReadDone(h) =>
            LET op == rd_ops[h][1]
                got == Take(byte_vec[h], op.off) \o Take(wire[h], op.len)
            IN  IF delivered'[h] # delivered[h]
                THEN /\ delivered'[h] = Append(delivered[h], got)
                     /\ rd_ops'[h] # <<>> =>
                            /\ Len(byte_vec'[h]) = read_size[h]
                            /\ rd_ops'[h][1].off = 0
                            /\ rd_ops'[h][1].len = read_size[h]
                ELSE /\ Take(byte_vec'[h], op.off + op.len) = got
                     /\ HdrReadPending(h)'
                     /\ rd_ops'[h][1].off = op.off + op.len]_vars

(* a message made of a header read and a body read was delivered and the   *)
(* next header read is outstanding                                         *)
C31_Witness ==
    \E h \in HIds :
        /\ delivered[h] # <<>>
        /\ Len(delivered[h][Len(delivered[h])]) > HdrSize
        /\ HdrReadPending(h)
        /\ rd_ops[h][1].off = 0
        /\ Len(byte_vec[h]) = HdrSize

(***************************************************************************)
(* The handler pair whose application passes any header size to start_io,  *)
(* 0 included.                                                             *)
(***************************************************************************)
MaxEmptyReads == 1

HeaderSizes == {0, HdrSize}

TcpStartIoSized ==
    \E h \in created : \E header_size \in HeaderSizes : tcp_io_start_io_sized(h, header_size)

(* tcp_io::handle_read run by the completion, without error, of a read of  *)
(* no bytes (m_byte_vec was resized to a header size of 0). The framing    *)
(* function object of the tests decodes a header from a buffer that holds  *)
(* none: what it returns is not defined, next is any size. When it is      *)
(* called for a body it returns 0 without looking at the buffer.           *)
tcp_io_handle_read_empty(h, i, next, mh_ret) ==
    LET S0 == [Core EXCEPT !.rd_ops[h] = RemoveAt(@, i)]
        vec == byte_vec[h]
        fr == IF ~hdr_processed[h] THEN [next |-> next, processed |-> next # 0]
              ELSE [next |-> 0, processed |-> FALSE]
    IN
    /\ hdr_processed' = [hdr_processed EXCEPT ![h] = fr.processed]
    /\ IF fr.next = 0
       THEN /\ delivered' = [delivered EXCEPT ![h] = Append(@, vec)]
            /\ IF ~mh_ret
               THEN /\ SetCore(m_notifier_cb(S0, message_handler_terminated, h))
                    /\ byte_vec' = [byte_vec EXCEPT ![h] = vec]
               ELSE /\ byte_vec' = [byte_vec EXCEPT ![h] = Resize(vec, read_size[h])]
                    /\ SetCore(start_read(S0, h, 0, read_size[h]))
       ELSE /\ delivered' = delivered
            /\ byte_vec' = [byte_vec EXCEPT ![h] = Resize(vec, Len(vec) + fr.next)]
            /\ SetCore(start_read(S0, h, Len(vec), fr.next))

TcpHandleReadEmpty ==
    \E h \in created : \E i \in DOMAIN rd_ops[h] :
    \E next \in 0 .. MaxBody : \E mh_ret \in BOOLEAN :
        /\ ~rd_ops[h][i].until
        /\ rd_ops[h][i].len = 0
        /\ "ok" \in ReadResults(h, i)
        \* reads of no bytes complete at once, again and again: only while the
        \* handler has delivered fewer than MaxEmptyReads messages
        /\ Len(delivered[h]) < MaxEmptyReads
        /\ tcp_io_handle_read_empty(h, i, next, mh_ret)
        /\ UNCHANGED <<scenVars, udpVars, write_in_progress, outq, remote_endp, read_size,
                       delimiter, execq, eof, wire,
                       created, endpoints_empty, conn_ops, ret, sio_calls, accepted,
                       written, n_sends, n_starts>>

InitHdr == InitPair /\ delim = <<>>

NextHdr ==
    \/ TcpStartIoSized
    \/ TcpSend
    \/ TcpSendClosure
    \/ TcpHandleRead
    \/ TcpHandleReadEmpty
    \/ TcpHandleWrite

SpecHdr == InitHdr /\ [][NextHdr]_vars

(* C32: start_io in header and callback framing with a header size of 0 is *)
(* rejected: it returns false, IO is not started and no read is issued.    *)
C32_ZeroHeaderRejected ==
    [][\A h \in HIds : tcp_io_start_io_sized(h, 0) =>
          /\ ~ret'.val
          /\ io_started'[h] = io_started[h]
          /\ rd_ops'[h] = rd_ops[h]]_vars

(* start_io(0, ...) has returned true and left a read of no bytes outstanding *)
C32_Witness ==
    \E h \in HIds :
        /\ delim = <<>>
        /\ ret.op = "start_io" /\ ret.h = h /\ ret.val
        /\ io_started[h]
        /\ read_size[h] = 0
        /\ rd_ops[h] # <<>>
        /\ rd_ops[h][1].len = 0

(***************************************************************************)
(* Delimiter framing: what one completed read delivers and leaves behind.  *)
(***************************************************************************)
(* handler h has one read outstanding, made by start_read_until *)
UntilReadPending(h) == Len(rd_ops[h]) = 1 /\ rd_ops[h][1].until

(* this step is the completion without error of that read: the message     *)
(* handler was called                                                      *)
UntilReadDone(h) == UntilReadPending(h) /\ TcpHandleRead /\ delivered'[h] # delivered[h]

(* C33: in delimiter framing the message passed to the message handler is  *)
(* the bytes from the start of the buffer through the delimiter, the first *)
(* one in the buffer; when reading goes on the bytes read past it stay in  *)
(* the buffer as the beginning of the next message, so that the delivered  *)
(* message, the buffer and the unread stream together are the buffer and   *)
(* the unread stream from before: no byte dropped, none delivered twice.   *)
C33_DelimiterKeepsTrailingBytes ==
    [][\A h \in HIds : UntilReadDone(h) =>
          LET k == Len(wire[h]) - Len(wire'[h])
              vec == byte_vec[h] \o Take(wire[h], k)
              d == delimiter[h]
              msg == delivered'[h][Len(delivered'[h])]
          IN  /\ delivered'[h] = Append(delivered[h], msg)
              /\ wire'[h] = Drop(wire[h], k)
              /\ IsPrefix(msg, vec)
              /\ Len(msg) >= Len(d)
              /\ MatchEnds(msg, d) = {Len(msg)}
              /\ rd_ops'[h] # <<>> =>
                    /\ UntilReadPending(h)'
                    /\ byte_vec'[h] = Drop(vec, Len(msg))
                    /\ msg \o byte_vec'[h] \o wire'[h] = byte_vec[h] \o wire[h]]_vars

(* a message was delivered, reading goes on and the buffer holds bytes     *)
(* that were read past its delimiter                                       *)
C33_Witness ==
    \E h \in HIds :
        /\ delimiter[h] # <<>>
        /\ delivered[h] # <<>>
        /\ UntilReadPending(h)
        /\ byte_vec[h] # <<>>

(* the entity was told that handler h ended (an error, a stop_io, a        *)
(* message handler that returned false): h reads no more                   *)
StoppedReading(h) == \E i \in DOMAIN notified : notified[i].h = h

(* C34: a TCP IO handler never has more than one asynchronous read         *)
(* outstanding, a cancelled read whose completion has not run yet          *)
(* included, and it has exactly one from a successful start_io until it    *)
(* stops reading.                                                          *)
C34_OneReadOutstanding ==
    \A h \in HIds :
        /\ Len(rd_ops[h]) <= 1
        /\ (io_started[h] /\ ~StoppedReading(h)) => Len(rd_ops[h]) = 1

(* the entity has closed a handler whose cancelled read has not completed  *)
(* yet, and a further start_io on it was refused                           *)
C34_Witness ==
    \E h \in HIds :
        /\ ~io_started[h]
        /\ Len(rd_ops[h]) = 1
        /\ rd_ops[h][1].st = "cancelled"
        /\ ret.op = "start_io" /\ ret.h = h /\ ~ret.val

(***************************************************************************)
(* The handler pair whose peers can go away while data is being sent.      *)
(***************************************************************************)
(* the remote end of handler h's connection is closed: h's reads end with  *)
(* eof once the bytes that arrived are read, its writes can fail           *)
PeerCloses ==
    /\ mode = "pair"
    /\ \E h \in created :
           /\ sock[h] = "open"
           /\ ~eof[h]
           /\ eof' = [eof EXCEPT ![h] = TRUE]
           /\ UNCHANGED <<scenVars, udpVars, ioCommonVars, tcpIoVars, rd_ops, wr_ops,
                          execq, wire,
                          connVars, obsVars>>

NextPeerCloses ==
    \/ TcpStartIo
    \/ TcpSend
    \/ TcpSendClosure
    \/ TcpHandleRead
    \/ TcpHandleWrite
    \/ PeerCloses

(* the tests' header framing *)
InitPeerCloses == InitPair /\ delim = <<>>

SpecPeerCloses == InitPeerCloses /\ [][NextPeerCloses]_vars

(* the executor runs posted closures and completion handlers *)
SpecPeerClosesLive ==
    SpecPeerCloses /\ WF_vars(TcpSendClosure) /\ WF_vars(TcpHandleWrite)
                   /\ WF_vars(TcpHandleRead)

(* this step is handle_write of handler h called with an error *)
WriteFails(h) ==
    /\ TcpHandleWrite
    /\ \E i \in DOMAIN wr_ops[h] : \E res \in WriteResults(h, i) \ {"ok"} :
           tcp_io_handle_write(h, i, res)

(* a write of handler h has failed: io_common::get_next_element was not    *)
(* called, the write flag is set and no write is outstanding               *)
WriteHasFailed(h) == write_in_progress[h] /\ wr_ops[h] = <<>>

(* C35: when a TCP write completes with an error the write path does not   *)
(* notify the entity and starts no further write (the output queue stays   *)
(* as it is); the read path observes the closure and notifies the entity,  *)
(* which drives the shutdown of the handler.                               *)
C35_WriteErrorLeftToReadPath ==
    /\ [][\A h \in HIds : WriteFails(h) =>
            /\ notified' = notified
            /\ cbLog' = cbLog
            /\ Len(wr_ops'[h]) = Len(wr_ops[h]) - 1
            /\ written'[h] = written[h]
            /\ outq'[h] = outq[h]]_vars
    \* the handler that sends
    /\ (WriteHasFailed(Sender) /\ io_started[Sender]) ~> StoppedReading(Sender)

(* a write failed while buffers were queued behind it, and the read path   *)
(* has reported the closed connection                                      *)
C35_Witness ==
    \E h \in HIds :
        /\ WriteHasFailed(h)
        /\ outq[h] # <<>>
        /\ \E i \in DOMAIN notified : notified[i].h = h /\ notified[i].err = eof_error

(* C36: for every IO handler whose IO is started the write flag is set     *)
(* exactly when an asynchronous write is outstanding on the socket; it is  *)
(* never left set with no write outstanding.                               *)
C36_FlagIffWriteOutstanding ==
    \A h \in HIds : io_started[h] => (write_in_progress[h] <=> wr_ops[h] # <<>>)

(* IO is started, the write flag is set, no write is outstanding and sends *)
(* are queued behind it                                                    *)
C36_Witness ==
    \E h \in HIds :
        /\ io_started[h]
        /\ WriteHasFailed(h)
        /\ execq = <<>>
        /\ Len(outq[h]) >= 2

(* the calls of handler h's notifier, and the stopCb calls that name h *)
NotifierCalls(h) == {i \in DOMAIN notified : notified[i].h = h}
StopCbCalls(h) == {k \in DOMAIN cbLog : cbLog[k].kind = "stop" /\ cbLog[k].h = h}

(* C37: a TCP IO handler invokes its entity notifier at most once over its *)
(* lifetime, so that the entity reports each handler to stopCb at most     *)
(* once.                                                                   *)
C37_NotifierAtMostOnce ==
    \A h \in HIds :
        /\ Cardinality(NotifierCalls(h)) <= 1
        /\ Cardinality(StopCbCalls(h)) <= 1

(* after stop_io the entity closed the handler, and the completion of the  *)
(* cancelled read notified the entity again                                *)
C37_Witness ==
    \E h \in HIds : \E i, j \in NotifierCalls(h) :
        /\ i < j
        /\ notified[i].err = tcp_io_handler_stopped
        /\ notified[j].err = operation_aborted
        /\ Cardinality(StopCbCalls(h)) = 2

(* the state change notifications of the UDP entity so far, by direction *)
StateChanges(starting) ==
    {k \in DOMAIN cbLog : cbLog[k].kind = (IF starting THEN "start" ELSE "stop")}

(* C38: the state change notifications of a UDP entity alternate: every    *)
(* notification with starting = false is preceded by a notification with   *)
(* starting = true that no earlier one matched, so there are never more of *)
(* the former than of the latter.                                          *)
C38_StateChangesAlternate ==
    mode \in UdpModes =>
        \A k \in StateChanges(FALSE) :
            Cardinality({j \in StateChanges(FALSE) : j <= k})
                <= Cardinality({j \in StateChanges(TRUE) : j < k})

(* one start, and IO started and stopped twice on its io_interface *)
C38_Witness ==
    /\ mode \in UdpModes
    /\ n_starts = 1
    /\ sio_calls[U] = 2
    /\ Cardinality(StateChanges(TRUE)) = 1
    /\ Cardinality(StateChanges(FALSE)) = 2

C40_ComparisonStable ==
    [][\A a \in EHandles : \A b \in EHandles :
          /\ operator_eq(a, b)' = operator_eq(a, b)
          /\ operator_lt(a, b)' = operator_lt(a, b)]_vars

(* a handle was compared with a default-constructed one and found          *)
(* different and not less; its entity was destroyed since, and the same    *)
(* two handles now compare equal                                           *)
C40_Witness ==
    /\ mode = "handle"
    /\ hret.op = "compare"
    /\ hret.a # NoEntity
    /\ hret.b = NoEntity
    /\ ~hret.val
    /\ ~hret.lt
    /\ operator_eq(hret.a, hret.b)

====
